---------------------------- MODULE Spec2Model ----------------------------
(***************************************************************************)
(* Model of the tigris query runners (server/services/v1/database) and of  *)
(* the tenant metadata they drive (server/metadata).                       *)
(*                                                                         *)
(* The module holds several specifications over one set of variables; a    *)
(* specification leaves the variables of the other subsystems at their     *)
(* initial values.                                                         *)
(*   SpecRead   the streaming read runner (StreamingQueryRunner)           *)
(*   SpecWrite  Insert, Replace, Update and Delete on one collection       *)
(*   SpecImport Import with schema inference, in the main database and a   *)
(*              branch                                                     *)
(*   SpecDDL    concurrent CreateOrUpdateCollection of one collection name *)
(*   SpecTenant the tenant cache and its version under reloads             *)
(*   SpecHook   the post-commit hook that mirrors rows into the search     *)
(*              store (SearchIndexer.OnPostCommit)                         *)
(*   SpecProj   projects, branches and explicit search indexes             *)
(*   SpecIsolation  reads and DDL of an explicit transaction over the      *)
(*              branches of a project                                      *)
(*   SpecStaged the staged database of an explicit transaction and the     *)
(*              cached database the other sessions see                     *)
(*   SpecSchema the schema versions of a collection under                  *)
(*              CreateOrUpdateCollection and the import's evolveSchema     *)
(*   SpecSchemaStore  Put, Get, GetLatest and Delete of the schema store   *)
(*   SpecNs     namespaces: reservation and the tenant manager's cache     *)
(*   SpecDict   the dictionary's ids under concurrent transactions         *)
(*   SpecPack   packing of a row for the search store and its inverse      *)
(*   SpecSearch the search runner streaming pages of hits                  *)
(*   SpecReload concurrent Tenant.Reload calls on one cached tenant        *)
(*   SpecCreateProject  CreateProject of one project name by several       *)
(*              workers                                                    *)
(*   SpecWatcher  the realtime ChannelWatcher's loop (watchEvents)         *)
(***************************************************************************)
EXTENDS Integers, Sequences, FiniteSets, TLC

(***************************************************************************)
(* Bounds of the model.                                                    *)
(***************************************************************************)
\* encoded primary keys of one collection are 1..MaxKey, ordered as the
\* order-preserving key encoding orders them
MaxKey == 3
\* largest options.limit a request carries (0 means no limit)
MaxLimit == 2
\* how many times one streaming read may hit the transaction time limit
MaxRestarts == 2

\* number of write requests a behaviour holds (each takes one timestamp)
MaxClock == 2
\* documents of one Insert/Replace batch
MaxBatch == 2
\* document bodies are 1..MaxVal
MaxVal == 2
\* schema versions of the collection are 1..MaxVer
MaxVer == 2
\* timestamps the Import runs of a behaviour may take (a retry takes a second one)
MaxImportClock == 3
\* schemas of the imported collection are levels 1..MaxLvl, each accepting more
\* documents than the one below; level MaxLvl + 1 only by a fresh create
MaxLvl == 2
\* transactions (sessions) that issue CreateOrUpdateCollection at the same time
MaxTx == 2
\* CreateOrUpdateCollection requests a behaviour holds
MaxDDL == 3
\* the persisted metadata version runs over 1..MaxMeta
MaxMeta == 3
\* workers that use the tenant cache of the server at the same time
MaxWorkers == 2
\* keys of the mirrored collection are 1..MaxHookKey, document bodies 1..MaxHookVal
MaxHookKey == 2
MaxHookVal == 2
\* events in the event list of one transaction
MaxEvents == 2
\* transactions whose post-commit hook runs in a behaviour
MaxHookTx == 2
\* database ids the dictionary hands out in a behaviour
MaxDbId == 3
\* schemas of a project's collection are 1..MaxSchema
MaxSchema == 2
\* keys of the rows of a project's collection are 1..MaxProjKey
MaxProjKey == 1
\* the highest schema version a collection is taken to
MaxRevision == 3
\* namespace ids are 1..MaxNsId
MaxNsId == 2
\* concurrent transactions on the dictionary
MaxDictTx == 2
\* dictionary operations in one transaction
MaxDictOps == 2
\* the highest id the dictionary's counter is taken to
MaxDictId == 3
\* hits the search store holds for a query are 0..MaxHits
MaxHits == 5
\* the page a search request asks for is 0..MaxPage (0: all pages)
MaxPage == 3
\* the page size a search request asks for is 0..MaxPageSize (0: the default)
MaxPageSize == 2
\* the metadata version of the reloaded tenant runs over 1..MaxReloadVer
MaxReloadVer == 3
\* messages on the watched stream
MaxStreamMsgs == 3

Keys == 1..MaxKey
\* a key holding only the table prefix: keys.NewKey(table)
TableStart == 0
\* the nil key / nil byte slice
NilKey == -1

VARIABLES
    \* ---- streaming read (StreamingQueryRunner) ----
    rTable,      \* keys of the rows stored in the collection
    rSearchRead, \* config.DefaultConfig.Search.IsReadEnabled()
    rReq,        \* the ReadRequest: filter shape, rows it matches, sort, offset, limit
    rOpts,       \* readerOptions built for the request
    rPc,         \* where ReadOnly stands
    rIter,       \* rows the iterator of the current transaction has still to return
    rI,          \* loop counter i of iterate
    rRow,        \* row.Key of the current iterate call
    rSent,       \* resume tokens (keys) of the responses sent for this request
    rFirst,      \* rows sent by the first read, kept when the client resumes
    rReadNo,     \* 1: first read, 2: the read resumed from the first read's token
    rRestarts,   \* restarts after ErrTransactionMaxDurationReached in this request
    \* ---- writes to one collection (Insert/Replace/Update/Delete runners) ----
    wStore,      \* committed rows of the collection: key -> row or NoRow
    wTx,         \* the rows as the running transaction sees them (its own writes applied)
    wVer,        \* coll.GetVersion(): schema version of the cached collection
    wClock,      \* value of the last internal.NewTimestamp()
    wPc,         \* "idle", or the write loop in progress: "update", "delete"
    wReq,        \* the request being run (or the last one run)
    wIter,       \* keys the write iterator has still to return
    wStopped,    \* the iterator was interrupted: Next returns false from now on
    wModified,   \* modifiedCount
    wDone,       \* keys of the rows the loop has rewritten or deleted, in order
    wResp,       \* the Response (or error) the runner returned last
    \* ---- Import into one collection name of one project (ImportQueryRunner) ----
    iCache,      \* tenant cache: branch -> the collection of that name in the branch's database
    iPersist,    \* dictionary and schema store: branch -> the committed collection
    iRows,       \* committed rows: branch -> key -> row or NoRow
    iTx,         \* rows as the transaction of the running attempt sees them
    iClock,      \* value of the last internal.NewTimestamp() of an Import
    iPc,         \* where ImportQueryRunner.Run stands
    iReq,        \* the ImportRequest
    iColl,       \* the local coll of Run: the collection resolved before the first attempt
    iResp,       \* status of the response or error Run returned last
    iMissing,    \* history: the collection was missing when the request resolved it first
    iEvolvedIn,  \* history: branch whose database evolveSchema changed for this request
    iRetried,    \* history: the retry of this request ran
    \* ---- concurrent CreateOrUpdateCollection of one name (CollectionQueryRunner) ----
    dName,       \* dictionary: the active id of the collection name, InvalidId if none
    dCounter,    \* dictionary: the last collection id allocated
    dSchemas,    \* schema store: the <<collection id, version>> stored
    dSeq,        \* number of committed transactions that wrote the dictionary
    dCache,      \* per session: the collection id the worker's tenant cache holds
    dPc,         \* per session: "idle", "commit" (Run returned a response), "done"
    dOnlyCreate, \* per session: createOrUpdateReq.OnlyCreate
    dSnap,       \* per session: dSeq when the transaction read the dictionary
    dStaged,     \* per session: collection id in the staged clone, InvalidId if none
    dDup,        \* per session, history: the dictionary returned DuplicateKey
    dResp,       \* per session: status of the response or error
    dCount,      \* requests issued so far
    \* ---- the tenant cache of one namespace on one server (TenantManager, Tenant) ----
    tGlobal,     \* the persisted metadata version (VersionHandler)
    tDDLs,       \* the versions that the commit of a DDL of this tenant bumped to
    tReserved,   \* the version at which the namespace was reserved, NotReserved if none
    tCached,     \* m.tenants holds the tenant
    tVersion,    \* tenant.version, NilVersion for a tenant created with a nil version
    tView,       \* the DDLs (by version) that tenant.projects reflects
    tMLock,      \* holder of the TenantManager lock, 0 if free
    tPc,         \* per worker: "idle", "tx" (holds a transaction), "mreload"
                 \* (inside TenantManager.Reload, holding its lock)
    tSnap,       \* per worker: the metadata version the worker's transaction reads
    \* ---- the search mirror of one collection (SearchIndexer.OnPostCommit) ----
    hRows,       \* committed rows of the collection: key -> data, NoDoc if none
    hImplicit,   \* search store, the collection's implicit index: key -> document
    hExplicit,   \* search store, an explicit index with source tigris on the collection
    hLinked,     \* collection.SearchIndexes holds that explicit index
    hEvents,     \* eventListener.GetEvents() of the committed transaction
    hI,          \* position in the event list of the hook's loop
    hPc,         \* "idle", "run" (inside OnPostCommit), "done" (it returned)
    hOps,        \* the operations the hook has issued to the search store, in order
    hErr,        \* what OnPostCommit returned: "none" yet, "nil", "error"
    hNotFoundAt, \* history: position of the Delete event that got NotFound, 0 if none
    hTxNo,       \* transactions committed so far
    \* ---- one project with its branches (Tenant.CreateBranch, DeleteBranch, DeleteProject) ----
    pCounter,    \* dictionary: the last database id allocated
    pDbs,        \* dictionary: database (main or branch) -> its id, NoDb if none
    pColls,      \* database -> collection name -> its current schema, 0 if none
    pRows,       \* the rows stored, each <<database id, collection name, key>>
    pMeta,       \* the project-metadata record exists
    pIdx,        \* explicit search indexes: index name -> its source, NoIndex if none
    pStaged,     \* the database staged in the session's explicit transaction
    pLast,       \* the last operation, its arguments and what it returned
    \* ---- schema versions of one collection (SpecSchema, SpecSchemaStore) ----
    sStore,      \* schema store: the committed (version, schema) entries of the collection
    sDict,       \* dictionary: committed index name -> id of the collection (InvalidId: none)
    sCounter,    \* dictionary: the committed index id counter
    sCache,      \* the collection holder in the tenant cache's Database
    sLast,       \* the last operation and what it returned
    \* ---- namespaces and the tenant manager's maps (SpecNs) ----
    nReserved,   \* reserved subspace: committed str_id -> namespace id, NoNs if none
    nVersion,    \* the committed metadata version
    nTenants,    \* m.tenants: str_id -> the cached Tenant (its namespace id, its identity)
    nIdToTenant, \* m.idToTenantMap: namespace id -> str_id
    nObjs,       \* Tenant objects put in the cache so far
    nLast,       \* the last call, its arguments and what it returned
    \* ---- the dictionary's encoding subspace under concurrent transactions (SpecDict) ----
    kRecs,       \* committed records: kind -> (id, state) of the one name of that kind
    kCounter,    \* the committed id counter
    kPc,         \* transaction -> "idle" or "open"
    kSnap,       \* transaction -> the records and counter as of its start
    kView,       \* transaction -> the records and counter as the transaction has them
    kTouched,    \* transaction -> the kinds whose record it has read or written
    kNew,        \* transaction -> the (kind, id) pairs its Creates have returned
    kOps,        \* transaction -> operations done in it
    kAllocated,  \* the (kind, id) pairs that committed Creates have returned
    kLast,       \* the last operation and what it returned
    \* ---- packing of a row for the search store and its inverse (SpecPack) ----
    fDoc,        \* the row's document, as the user wrote it
    fData,       \* the row's metadata (internal.TableData): created and updated timestamps
    fKey,        \* the search key of the row
    fPacked,     \* the document the search store holds for the row
    fOut,        \* what UnpackSearchFields returned: search key, metadata, document
    fPc,         \* "new", "packed" or "unpacked"
    \* ---- the search runner streaming pages of hits (SpecSearch) ----
    qFound,      \* hits the search store holds for the query
    qReq,        \* the SearchRequest: page and page size
    qPc,         \* "idle", "run" or "done"
    qFrom,       \* hits the iterator has returned so far, counted from the first hit of the store
    qUntil,      \* the last hit the iterator returns
    qHits,       \* hits in the response being built
    qPageNo,     \* pageNo of the loop
    qTotalPages, \* totalPages of the loop (NoTotalPages while nil)
    qInterrupted,\* whether the iterator was interrupted by an error of the store
    qSent,       \* the responses sent on the stream, in order
    qResult,     \* "none", "ok" or "error": what ReadOnly returned
    \* ---- concurrent Tenant.Reload calls on one cached tenant (SpecReload) ----
    lGlobal,     \* the metadata version in the store; the commit that made version n created database n
    lVersion,    \* tenant.version
    lCache,      \* tenant.projects and tenant.idToDatabaseMap, as sets of database ids
    lLock,       \* the worker holding the tenant's write lock, or 0
    lPc,         \* worker -> "idle", "wait" (before tenant.Lock) or "locked"
    lArg,        \* worker -> the version its Reload call carries
    lWaited,     \* worker -> what it saw while waiting for the lock in this call: "no" run of
                 \* tenant.reload for its version by another caller, a "failed" one, or an "ok" one
    \* lLast: the last return of a Reload call: worker, version, tenant.version before,
    \* whether tenant.reload ran, what the caller had seen, whether the maps changed
    lLast,       \* the last return of a Reload call
    \* ---- CreateProject by several workers for one project name (SpecCreateProject) ----
    cDict,       \* the committed dictionary: id of the project's main database, or InvalidId
    cCounter,    \* the dictionary's id counter
    cMetaStore,  \* the committed project metadata: the worker that inserted it and the id it carries
    cProjects,   \* worker -> whether tenant.projects of that worker holds the project
    cTx,         \* worker -> the transaction of its CreateProject request
    cLast,       \* the last response of ProjectQueryRunner.Run
    cCreated,    \* the workers whose CreateProject was answered CREATED and committed
    \* ---- ChannelWatcher.watchEvents on one stream and consumer group (SpecWatcher) ----
    eStop,       \* sigStop is closed
    eDisconnect, \* sigDisconnect is closed
    eGroup,      \* the consumer group exists on the stream
    ePc,         \* position of watchEvents: "select", "watch", "ack" or "returned"
    eNext,       \* the number of stream messages delivered to the group so far
    eResp,       \* the ids of the batch ReadGroup returned
    eIds,        \* the ids the watch callback returned
    eAcked,      \* the ids the stream holds as acknowledged
    eOkIds,      \* the ids returned by callbacks that returned no error
    eLast        \* the last round of the loop: what ReadGroup and the callback returned, and the Ack call

readVars == <<rTable, rSearchRead, rReq, rOpts, rPc, rIter, rI, rRow, rSent,
              rFirst, rReadNo, rRestarts>>

writeVars == <<wStore, wTx, wVer, wClock, wPc, wReq, wIter, wStopped,
               wModified, wDone, wResp>>

importVars == <<iCache, iPersist, iRows, iTx, iClock, iPc, iReq, iColl, iResp,
                iMissing, iEvolvedIn, iRetried>>

ddlVars == <<dName, dCounter, dSchemas, dSeq, dCache, dPc, dOnlyCreate, dSnap,
             dStaged, dDup, dResp, dCount>>

tenantVars == <<tGlobal, tDDLs, tReserved, tCached, tVersion, tView, tMLock,
                tPc, tSnap>>

hookVars == <<hRows, hImplicit, hExplicit, hLinked, hEvents, hI, hPc, hOps,
              hErr, hNotFoundAt, hTxNo>>

projVars == <<pCounter, pDbs, pColls, pRows, pMeta, pIdx, pStaged, pLast>>

schemaVars == <<sStore, sDict, sCounter, sCache, sLast>>

nsVars == <<nReserved, nVersion, nTenants, nIdToTenant, nObjs, nLast>>

dictVars == <<kRecs, kCounter, kPc, kSnap, kView, kTouched, kNew, kOps,
              kAllocated, kLast>>

packVars == <<fDoc, fData, fKey, fPacked, fOut, fPc>>

searchVars == <<qFound, qReq, qPc, qFrom, qUntil, qHits, qPageNo, qTotalPages,
                qInterrupted, qSent, qResult>>

reloadVars == <<lGlobal, lVersion, lCache, lLock, lPc, lArg, lWaited, lLast>>

createVars == <<cDict, cCounter, cMetaStore, cProjects, cTx, cLast, cCreated>>

watcherVars == <<eStop, eDisconnect, eGroup, ePc, eNext, eResp, eIds, eAcked,
                 eOkIds, eLast>>

vars == <<readVars, writeVars, importVars, ddlVars, tenantVars, hookVars, projVars, schemaVars, nsVars, dictVars, packVars, searchVars, reloadVars, createVars, watcherVars>>

\* what the actions of one subsystem leave alone
otherThanRead == <<writeVars, importVars, ddlVars, tenantVars, hookVars, projVars, schemaVars, nsVars, dictVars, packVars, searchVars, reloadVars, createVars, watcherVars>>
otherThanWrite == <<readVars, importVars, ddlVars, tenantVars, hookVars, projVars, schemaVars, nsVars, dictVars, packVars, searchVars, reloadVars, createVars, watcherVars>>
otherThanImport == <<readVars, writeVars, ddlVars, tenantVars, hookVars, projVars, schemaVars, nsVars, dictVars, packVars, searchVars, reloadVars, createVars, watcherVars>>
otherThanDDL == <<readVars, writeVars, importVars, tenantVars, hookVars, projVars, schemaVars, nsVars, dictVars, packVars, searchVars, reloadVars, createVars, watcherVars>>
otherThanTenant == <<readVars, writeVars, importVars, ddlVars, hookVars, projVars, schemaVars, nsVars, dictVars, packVars, searchVars, reloadVars, createVars, watcherVars>>
otherThanHook == <<readVars, writeVars, importVars, ddlVars, tenantVars, projVars, schemaVars, nsVars, dictVars, packVars, searchVars, reloadVars, createVars, watcherVars>>
otherThanProj == <<readVars, writeVars, importVars, ddlVars, tenantVars, hookVars, schemaVars, nsVars, dictVars, packVars, searchVars, reloadVars, createVars, watcherVars>>
otherThanSchema == <<readVars, writeVars, importVars, ddlVars, tenantVars, hookVars, projVars, nsVars, dictVars, packVars, searchVars, reloadVars, createVars, watcherVars>>
otherThanNs == <<readVars, writeVars, importVars, ddlVars, tenantVars, hookVars, projVars, schemaVars, dictVars, packVars, searchVars, reloadVars, createVars, watcherVars>>
otherThanDict == <<readVars, writeVars, importVars, ddlVars, tenantVars, hookVars, projVars, schemaVars, nsVars, packVars, searchVars, reloadVars, createVars, watcherVars>>
otherThanPack == <<readVars, writeVars, importVars, ddlVars, tenantVars, hookVars, projVars, schemaVars, nsVars, dictVars, searchVars, reloadVars, createVars, watcherVars>>
otherThanSearch == <<readVars, writeVars, importVars, ddlVars, tenantVars, hookVars, projVars, schemaVars, nsVars, dictVars, packVars, reloadVars, createVars, watcherVars>>
otherThanReload == <<readVars, writeVars, importVars, ddlVars, tenantVars, hookVars, projVars, schemaVars, nsVars, dictVars, packVars, searchVars, createVars, watcherVars>>
otherThanCreateProject == <<readVars, writeVars, importVars, ddlVars, tenantVars, hookVars, projVars, schemaVars, nsVars, dictVars, packVars, searchVars, reloadVars, watcherVars>>
otherThanWatcher == <<readVars, writeVars, importVars, ddlVars, tenantVars, hookVars, projVars, schemaVars, nsVars, dictVars, packVars, searchVars, reloadVars, createVars>>

(***************************************************************************)
(* Helpers.                                                                *)
(***************************************************************************)
Min(S) == CHOOSE x \in S : \A y \in S : x <= y

Max(S) == CHOOSE x \in S : \A y \in S : x >= y

RECURSIVE AscSeq(_)
\* the elements of a set of integers as an ascending sequence
AscSeq(S) == IF S = {} THEN <<>> ELSE <<Min(S)>> \o AscSeq(S \ {Min(S)})

Range(s) == {s[i] : i \in 1..Len(s)}

IsPrefix(s, t) == Len(s) <= Len(t) /\ \A i \in 1..Len(s) : s[i] = t[i]

StrictlyIncreasing(s) == \A i \in 1..(Len(s) - 1) : s[i] < s[i + 1]

Take(s, n) == IF n >= Len(s) THEN s ELSE SubSeq(s, 1, n)

(***************************************************************************)
(* Iterators and readers.  The reader package is not among the sources;    *)
(* the iterators follow section 4.6 of the specification.                  *)
(***************************************************************************)
\* KeyIterator(keys): multi-get by exact primary keys, in the order given
KeyIterator(ikeys) == SelectSeq(ikeys, LAMBDA k : k \in rTable)

\* ScanIterator(from): forward scan from `from` (inclusive) to end of table
ScanIterator(from) == AscSeq({k \in rTable : k >= from})

\* ScanTable(table): full-table forward scan
ScanTable == AscSeq(rTable)

\* FilteredRead(inner, filter): drops the rows the filter does not match
FilteredRead(inner, match) == SelectSeq(inner, LAMBDA k : k \in match)

\* keys.FromBinary(table, key); the error is dropped by the caller, and a nil
\* key decodes to no key
FromBinary(k) == IF k = NilKey THEN NilKey ELSE k

(***************************************************************************)
(* StreamingQueryRunner.                                                   *)
(***************************************************************************)
FilterKinds == {"none", "unindexed", "pk", "indexed"}

\* filter.None() || !filter.IsIndexed()
TriggersFullScan(kind) == kind \in {"none", "unindexed"}

\* buildKeysUsingFilter succeeds only when the filter binds the full primary key
BuildKeysFails(kind) == kind # "pk"

\* buildReaderOptions: the readerOptions for a request
BuildReaderOptions(req, searchRead) ==
    LET from0 == IF req.offset # NilKey THEN FromBinary(req.offset) ELSE NilKey
        fullScan == TriggersFullScan(req.kind)
        keysFail == ~fullScan /\ BuildKeysFails(req.kind)
    IN  [ ikeys         |-> IF ~fullScan /\ ~keysFail THEN req.ikeys ELSE <<>>,
          from          |-> IF keysFail /\ ~searchRead /\ from0 = NilKey
                              THEN TableStart ELSE from0,
          noFilter      |-> fullScan /\ ~req.sort,
          inMemoryStore |-> (fullScan /\ req.sort) \/ (keysFail /\ searchRead),
          match         |-> req.match ]

\* iterateOnKvStore: the iterator the transaction reads from
IterateOnKvStore(o) ==
    IF Len(o.ikeys) > 0 THEN KeyIterator(o.ikeys)
    ELSE IF o.from # NilKey THEN FilteredRead(ScanIterator(o.from), o.match)
    ELSE FilteredRead(ScanTable, o.match)

\* the path ReadOnly and iterateOnKvStore take for the options: the search
\* store, the key iterator, a scan from options.from, or a scan of the table
ReadPath(o) ==
    IF o.inMemoryStore THEN "search"
    ELSE IF Len(o.ikeys) > 0 THEN "keys"
    ELSE IF o.from # NilKey /\ o.from # TableStart THEN "scan-from"
    ELSE "scan-table"

\* iterate: the loop runs while (limit == 0 || i < limit)
WithinLimit(limit, i) == limit = 0 \/ i < limit

NoReq == [kind |-> "none", match |-> {}, ikeys |-> <<>>, sort |-> FALSE,
          offset |-> NilKey, limit |-> 0]
NoOpts == [ikeys |-> <<>>, from |-> NilKey, noFilter |-> FALSE,
           inMemoryStore |-> FALSE, match |-> {}]

ReadInit ==
    /\ rTable \in SUBSET Keys
    /\ rSearchRead \in BOOLEAN
    /\ rReq = NoReq
    /\ rOpts = NoOpts
    /\ rPc = "idle"
    /\ rIter = <<>>
    /\ rI = 0
    /\ rRow = NilKey
    /\ rSent = <<>>
    /\ rFirst = <<>>
    /\ rReadNo = 1
    /\ rRestarts = 0

\* the requests a client sends: the rows a filter matches are rows of the table,
\* a filter binding the primary key names its keys in ascending order
Requests(offset) ==
    { [kind |-> kind, match |-> m, ikeys |-> ik, sort |-> s,
       offset |-> offset, limit |-> l] :
        kind \in FilterKinds, m \in SUBSET Keys, ik \in {AscSeq(K) : K \in SUBSET Keys},
        s \in BOOLEAN, l \in 0..MaxLimit }

WellFormed(req) ==
    /\ req.kind = "none" => req.match = rTable
    /\ req.kind \in {"unindexed", "indexed"} => req.match \subseteq rTable
    /\ req.kind = "pk" => (req.ikeys # <<>> /\ req.match = Range(req.ikeys))
    /\ req.kind # "pk" => req.ikeys = <<>>

\* ReadOnly up to the loop: getDatabase, getCollection, buildReaderOptions
ReadOnlyBegin(req) ==
    LET o == BuildReaderOptions(req, rSearchRead) IN
    /\ rReq' = req
    /\ rOpts' = o
    /\ rPc' = IF o.inMemoryStore THEN "search" ELSE "starttx"
    /\ rIter' = <<>>
    /\ rI' = 0
    /\ rRow' = NilKey
    /\ rSent' = <<>>
    /\ rRestarts' = 0

\* a first read of the collection
ReadRequest ==
    /\ rPc = "idle"
    /\ rReadNo = 1
    /\ \E req \in Requests(NilKey) :
        /\ WellFormed(req)
        /\ ReadOnlyBegin(req)
    /\ UNCHANGED <<rTable, rSearchRead, rFirst, rReadNo>>
    /\ UNCHANGED otherThanRead

\* the client resumes: a second read of the same collection and filter with
\* options.offset set to the resume token of the last row of the first read
ResumeRequest ==
    /\ rPc = "done"
    /\ rReadNo = 1
    /\ rSent # <<>>
    /\ \E l \in 0..MaxLimit :
        ReadOnlyBegin([rReq EXCEPT !.offset = rSent[Len(rSent)], !.limit = l])
    /\ rFirst' = rSent
    /\ rReadNo' = 2
    /\ UNCHANGED <<rTable, rSearchRead>>
    /\ UNCHANGED otherThanRead

\* txMgr.StartTx, then iterateOnKvStore builds the iterator and iterate starts
StartTx ==
    /\ rPc = "starttx"
    /\ rIter' = IterateOnKvStore(rOpts)
    /\ rI' = 0
    /\ rRow' = NilKey
    /\ rPc' = "iter"
    /\ UNCHANGED <<rTable, rSearchRead, rReq, rOpts, rSent, rFirst, rReadNo, rRestarts>>
    /\ UNCHANGED otherThanRead

\* one round of the loop of iterate: Next returns a row and it is sent
SendRow ==
    /\ rPc = "iter"
    /\ WithinLimit(rReq.limit, rI)
    /\ rIter # <<>>
    /\ rRow' = Head(rIter)
    /\ rIter' = Tail(rIter)
    /\ rSent' = Append(rSent, Head(rIter))
    /\ rI' = rI + 1
    /\ UNCHANGED <<rTable, rSearchRead, rReq, rOpts, rPc, rFirst, rReadNo, rRestarts>>
    /\ UNCHANGED otherThanRead

\* streaming.Send fails: iterate returns row.Key and the error, ReadOnly returns it
SendFails ==
    /\ rPc = "iter"
    /\ WithinLimit(rReq.limit, rI)
    /\ rIter # <<>>
    /\ rRow' = Head(rIter)
    /\ rIter' = Tail(rIter)
    /\ rPc' = "failed"
    /\ UNCHANGED <<rTable, rSearchRead, rReq, rOpts, rSent, rI, rFirst, rReadNo, rRestarts>>
    /\ UNCHANGED otherThanRead

\* the loop ends (limit reached or iterator exhausted, not interrupted):
\* iterate returns (row.Key, nil), the transaction is rolled back, ReadOnly returns
IterateEnds ==
    /\ rPc = "iter"
    /\ (~WithinLimit(rReq.limit, rI) \/ rIter = <<>>)
    /\ rPc' = "done"
    /\ UNCHANGED <<rTable, rSearchRead, rReq, rOpts, rIter, rI, rRow, rSent, rFirst,
                   rReadNo, rRestarts>>
    /\ UNCHANGED otherThanRead

\* Next is cut short by the transaction time limit: iterate returns
\* (row.Key, ErrTransactionMaxDurationReached); ReadOnly sets options.from from the
\* returned key and loops to a new transaction
TxMaxDurationReached ==
    /\ rPc = "iter"
    /\ WithinLimit(rReq.limit, rI)
    /\ rRestarts < MaxRestarts
    /\ rOpts' = [rOpts EXCEPT !.from = FromBinary(rRow)]
    /\ rRestarts' = rRestarts + 1
    /\ rPc' = "starttx"
    /\ UNCHANGED <<rTable, rSearchRead, rReq, rIter, rI, rRow, rSent, rFirst, rReadNo>>
    /\ UNCHANGED otherThanRead

NextRead ==
    \/ ReadRequest
    \/ ResumeRequest
    \/ StartTx
    \/ SendRow
    \/ SendFails
    \/ IterateEnds
    \/ TxMaxDurationReached


(***************************************************************************)
(* Rows and the transaction's operations on them.  The KV store and the    *)
(* transaction are not among the sources: Insert fails with DuplicateKey   *)
(* on a key that exists, Replace overwrites, Delete removes, and a read    *)
(* returns the committed row (snapshot).  A row carries, beside the fields *)
(* of internal.TableData (c: created_at, u: updated_at with 0 for nil,     *)
(* ver, val: the document), two history fields no code reads: born, the    *)
(* timestamp of the insert that created the document, and mut, the         *)
(* timestamp of the last mutation after it (0: none).                      *)
(***************************************************************************)
NoRow == [c |-> 0, u |-> 0, ver |-> 0, val |-> 0, born |-> 0, mut |-> 0]

Live(view) == {k \in Keys : view[k] # NoRow}

\* internal.NewTableDataWithTS(createdAt, updatedAt, doc) and SetVersion(ver)
NewTableDataWithTS(createdAt, updatedAt, doc, ver) ==
    [c |-> createdAt, u |-> updatedAt, ver |-> ver, val |-> doc]

\* the row stored for data, with its history fields
Stored(data, born, mut) ==
    [c |-> data.c, u |-> data.u, ver |-> data.ver, val |-> data.val,
     born |-> born, mut |-> mut]

\* tx.Insert(key, data)
TxInsertFails(view, key) == view[key] # NoRow
TxInsert(view, key, data, ts) == [view EXCEPT ![key] = Stored(data, ts, 0)]

\* tx.Replace(key, data, isUpdate) on behalf of Replace: creates or overwrites
TxReplace(view, key, data, ts) ==
    [view EXCEPT ![key] = IF view[key] = NoRow THEN Stored(data, ts, 0)
                          ELSE Stored(data, view[key].born, ts)]

\* tx.Replace(newKey, newData, isUpdate) on behalf of Update: the document that
\* was read at oldKey is written at newKey
TxReplaceMoved(view, oldRow, newKey, data, ts) ==
    [view EXCEPT ![newKey] = Stored(data, oldRow.born, ts)]

\* tx.Delete(key)
TxDelete(view, key) == [view EXCEPT ![key] = NoRow]

(***************************************************************************)
(* BaseQueryRunner.insertOrReplace                                         *)
(***************************************************************************)
\* a document of a batch: its primary key and whether it passes
\* mutateAndValidatePayload
Docs == [key : Keys, ok : BOOLEAN]

Batches == UNION {[1..n -> Docs] : n \in 1..MaxBatch}

\* insert || keyGen.forceInsert
UseInsertAPI(insert, forceInsert) == insert \/ forceInsert

RECURSIVE InsertOrReplace(_, _, _, _, _, _, _)
\* the loop over the documents: the error it returns and the transaction's rows
InsertOrReplace(view, docs, insert, force, val, ts, ver) ==
    IF docs = <<>> THEN [err |-> "OK", view |-> view]
    ELSE LET d == Head(docs)
             tableData == NewTableDataWithTS(ts, 0, val, ver)
         IN  IF ~d.ok THEN [err |-> "InvalidArgument", view |-> view]
             ELSE IF UseInsertAPI(insert, force)
             THEN IF TxInsertFails(view, d.key)
                  THEN [err |-> "DuplicateKey", view |-> view]
                  ELSE InsertOrReplace(TxInsert(view, d.key, tableData, ts),
                                       Tail(docs), insert, force, val, ts, ver)
             ELSE InsertOrReplace(TxReplace(view, d.key, tableData, ts),
                                  Tail(docs), insert, force, val, ts, ver)

\* a runner that hands the error of the KV store to the client as it is
RawRunError(err) == err

\* InsertQueryRunner.Run: kv.ErrDuplicateKey becomes AlreadyExists
InsertRunError(err) == IF err = "DuplicateKey" THEN "AlreadyExists" ELSE err

\* ReplaceQueryRunner.Run returns the error as it is
ReplaceRunError(err) == err

\* the request as the runner holds it: the documents of an Insert or Replace, the
\* limit of an Update or Delete, the primary key an Update sets (0: none)
NoWriteReq == [op |-> "none", docs |-> <<>>, limit |-> 0, newKey |-> 0]
NoResp == [status |-> "none", count |-> 0]

WriteInit ==
    /\ wStore = [k \in Keys |-> NoRow]
    /\ wTx = [k \in Keys |-> NoRow]
    /\ wVer = 1
    /\ wClock = 0
    /\ wPc = "idle"
    /\ wReq = NoWriteReq
    /\ wIter = <<>>
    /\ wStopped = FALSE
    /\ wModified = 0
    /\ wDone = <<>>
    /\ wResp = NoResp

\* a request that runs in one step: the session commits the transaction when the
\* runner returns no error and rolls it back otherwise
OneStep(req, result, status, ts) ==
    /\ wReq' = req
    /\ wClock' = ts
    /\ wStore' = IF result.err = "OK" THEN result.view ELSE wStore
    /\ wTx' = wStore'
    /\ wResp' = [status |-> status, count |-> 0]
    /\ wDone' = <<>>
    /\ wModified' = 0
    /\ UNCHANGED <<wVer, wPc, wIter, wStopped>>

\* InsertQueryRunner.Run
Insert ==
    /\ wPc = "idle"
    /\ wClock < MaxClock
    /\ \E docs \in Batches, val \in 1..MaxVal, force \in BOOLEAN :
        LET ts == wClock + 1
            r == InsertOrReplace(wStore, docs, TRUE, force, val, ts, wVer)
        IN  OneStep([NoWriteReq EXCEPT !.op = "insert", !.docs = docs], r,
                    IF r.err = "OK" THEN "INSERTED" ELSE InsertRunError(r.err), ts)
    /\ UNCHANGED otherThanWrite

\* ReplaceQueryRunner.Run
Replace ==
    /\ wPc = "idle"
    /\ wClock < MaxClock
    /\ \E docs \in Batches, val \in 1..MaxVal, force \in BOOLEAN :
        LET ts == wClock + 1
            r == InsertOrReplace(wStore, docs, FALSE, force, val, ts, wVer)
        IN  OneStep([NoWriteReq EXCEPT !.op = "replace", !.docs = docs], r,
                    IF r.err = "OK" THEN "REPLACED" ELSE ReplaceRunError(r.err), ts)
    /\ UNCHANGED otherThanWrite

\* a committed CreateOrUpdateCollection that changed the schema: the cached
\* collection carries the next version
SchemaChange ==
    /\ wPc = "idle"
    /\ wVer < MaxVer
    /\ wVer' = wVer + 1
    /\ UNCHANGED <<wStore, wTx, wClock, wPc, wReq, wIter, wStopped,
                   wModified, wDone, wResp>>
    /\ UNCHANGED otherThanWrite

(***************************************************************************)
(* UpdateQueryRunner.Run and DeleteQueryRunner.Run                         *)
(***************************************************************************)
\* getWriteIterator: the key iterator when the filter binds the primary key, a
\* filtered scan of the table otherwise
GetWriteIterator(f, view) ==
    IF ~BuildKeysFails(f.kind)
    THEN SelectSeq(f.ikeys, LAMBDA k : view[k] # NoRow)
    ELSE SelectSeq(AscSeq(Live(view)), LAMBDA k : k \in f.match)

\* Update: the loop runs while (limit == 0 || modifiedCount < limit)
UpdateContinues(limit, modifiedCount) == limit = 0 \/ modifiedCount < limit

\* Delete: the loop breaks when limit > 0 && modifiedCount == limit
DeleteBreaks(limit, modifiedCount) == limit > 0 /\ modifiedCount = limit

\* MergeAndGet reports a primary-key mutation when the update sets a primary-key
\* field to a value other than the row's
PrimaryKeyMutation(req, key) == req.newKey # 0 /\ req.newKey # key

\* the filter of an Update or Delete request: its shape, the rows it matches,
\* the keys it binds
WriteFilters ==
    { [kind |-> kind, match |-> m, ikeys |-> ik] :
        kind \in FilterKinds, m \in SUBSET Keys,
        ik \in {AscSeq(K) : K \in SUBSET Keys} }

WriteWellFormed(f) ==
    /\ f.kind = "none" => f.match = Keys
    /\ f.kind = "pk" => (f.ikeys # <<>> /\ f.match = Range(f.ikeys))
    /\ f.kind # "pk" => f.ikeys = <<>>

\* the runner returns an error before or inside its loop: the session rolls back
WriteFails(req, status) ==
    /\ wReq' = req
    /\ wTx' = wStore
    /\ wPc' = "idle"
    /\ wIter' = <<>>
    /\ wStopped' = FALSE
    /\ wResp' = [status |-> status, count |-> 0]
    /\ UNCHANGED <<wStore, wVer, wClock, wModified, wDone>>

\* the runner enters its loop over the write iterator
WriteLoopBegins(req, pc, iter) ==
    /\ wReq' = req
    /\ wClock' = wClock + 1
    /\ wTx' = wStore
    /\ wPc' = pc
    /\ wIter' = iter
    /\ wStopped' = FALSE
    /\ wModified' = 0
    /\ wDone' = <<>>
    /\ wResp' = NoResp
    /\ UNCHANGED <<wStore, wVer>>

\* Update up to its loop: an update of all documents is refused
UpdateBegin ==
    /\ wPc = "idle"
    /\ wClock < MaxClock
    /\ \E f \in WriteFilters, l \in 0..MaxLimit, nk \in 0..MaxKey :
        LET req == [NoWriteReq EXCEPT !.op = "update", !.limit = l, !.newKey = nk] IN
        /\ WriteWellFormed(f)
        /\ IF f.kind = "none"
           THEN WriteFails(req, "InvalidArgument")
           ELSE WriteLoopBegins(req, "update", GetWriteIterator(f, wStore))
    /\ UNCHANGED otherThanWrite

\* one round of the loop of Update: the row is merged and written back, at its
\* key or, when the primary key changed, at the new key after deleting the old
UpdateStep ==
    /\ wPc = "update"
    /\ ~wStopped
    /\ UpdateContinues(wReq.limit, wModified)
    /\ wIter # <<>>
    /\ LET key == Head(wIter)
           row == wStore[key]
           newData == NewTableDataWithTS(row.c, wClock, row.val, wVer)
           newKey == IF PrimaryKeyMutation(wReq, key) THEN wReq.newKey ELSE key
           view == IF PrimaryKeyMutation(wReq, key) THEN TxDelete(wTx, key) ELSE wTx
       IN  wTx' = TxReplaceMoved(view, row, newKey, newData, wClock)
    /\ wIter' = Tail(wIter)
    /\ wModified' = wModified + 1
    /\ wDone' = Append(wDone, Head(wIter))
    /\ UNCHANGED <<wStore, wVer, wClock, wPc, wReq, wStopped, wResp>>
    /\ UNCHANGED otherThanWrite

\* a round of the loop of Update returns an error (key decoding, merge, key
\* generation, a failing tx.Delete or tx.Replace)
UpdateStepFails ==
    /\ wPc = "update"
    /\ ~wStopped
    /\ UpdateContinues(wReq.limit, wModified)
    /\ wIter # <<>>
    /\ WriteFails(wReq, "Internal")
    /\ UNCHANGED otherThanWrite

\* the loop of Update is over: Response{UpdatedStatus, ModifiedCount}
UpdateEnd ==
    /\ wPc = "update"
    /\ (wStopped \/ ~UpdateContinues(wReq.limit, wModified) \/ wIter = <<>>)
    /\ wResp' = [status |-> "UPDATED", count |-> wModified]
    /\ wPc' = "commit"
    /\ UNCHANGED <<wStore, wTx, wVer, wClock, wReq, wIter, wStopped,
                   wModified, wDone>>
    /\ UNCHANGED otherThanWrite

\* Delete up to its loop: a scan of the table when the filter matches all
DeleteBegin ==
    /\ wPc = "idle"
    /\ wClock < MaxClock
    /\ \E f \in WriteFilters, l \in 0..MaxLimit :
        /\ WriteWellFormed(f)
        /\ WriteLoopBegins([NoWriteReq EXCEPT !.op = "delete", !.limit = l], "delete",
                           IF f.kind = "none" THEN AscSeq(Live(wStore))
                           ELSE GetWriteIterator(f, wStore))
    /\ UNCHANGED otherThanWrite

\* one round of the loop of Delete
DeleteStep ==
    /\ wPc = "delete"
    /\ ~wStopped
    /\ ~DeleteBreaks(wReq.limit, wModified)
    /\ wIter # <<>>
    /\ wTx' = TxDelete(wTx, Head(wIter))
    /\ wIter' = Tail(wIter)
    /\ wModified' = wModified + 1
    /\ wDone' = Append(wDone, Head(wIter))
    /\ UNCHANGED <<wStore, wVer, wClock, wPc, wReq, wStopped, wResp>>
    /\ UNCHANGED otherThanWrite

\* a round of the loop of Delete returns an error
DeleteStepFails ==
    /\ wPc = "delete"
    /\ ~wStopped
    /\ ~DeleteBreaks(wReq.limit, wModified)
    /\ wIter # <<>>
    /\ WriteFails(wReq, "Internal")
    /\ UNCHANGED otherThanWrite

\* the loop of Delete is over: Response{DeletedStatus, ModifiedCount}
DeleteEnd ==
    /\ wPc = "delete"
    /\ (wStopped \/ DeleteBreaks(wReq.limit, wModified) \/ wIter = <<>>)
    /\ wResp' = [status |-> "DELETED", count |-> wModified]
    /\ wPc' = "commit"
    /\ UNCHANGED <<wStore, wTx, wVer, wClock, wReq, wIter, wStopped,
                   wModified, wDone>>
    /\ UNCHANGED otherThanWrite

\* the iterator is interrupted before it is exhausted (the context is cancelled,
\* or the transaction fails during Next): Next returns false
IteratorInterrupted ==
    /\ wPc \in {"update", "delete"}
    /\ ~wStopped
    /\ wIter # <<>>
    /\ wStopped' = TRUE
    /\ UNCHANGED <<wStore, wTx, wVer, wClock, wPc, wReq, wIter,
                   wModified, wDone, wResp>>
    /\ UNCHANGED otherThanWrite

\* the session commits the transaction of a runner that returned no error
SessionCommit ==
    /\ wPc = "commit"
    /\ wStore' = wTx
    /\ wPc' = "idle"
    /\ UNCHANGED <<wTx, wVer, wClock, wReq, wIter, wStopped,
                   wModified, wDone, wResp>>
    /\ UNCHANGED otherThanWrite

\* the commit of a transaction that was interrupted may fail: the client gets
\* the error of the commit
SessionCommitFails ==
    /\ wPc = "commit"
    /\ wStopped
    /\ wTx' = wStore
    /\ wPc' = "idle"
    /\ wResp' = [status |-> "Internal", count |-> 0]
    /\ UNCHANGED <<wStore, wVer, wClock, wReq, wIter, wStopped,
                   wModified, wDone>>
    /\ UNCHANGED otherThanWrite

(***************************************************************************)
(* Import.  One collection name of one project, in the main database and   *)
(* in one branch.  schema.Infer, DefaultCollection.Validate and            *)
(* schema.ApplySchemaRules are not among the sources: a schema is a level, *)
(* a document is of a kind, a schema accepts the kinds up to its level,    *)
(* inference widens a schema to the largest kind of the batch, and the     *)
(* compatibility rules accept a widening up to MaxLvl.                     *)
(***************************************************************************)
Branches == {"main", "dev"}

\* req.GetBranch(): unset, or the branch
ReqBranches == {"", "dev"}

\* metadata.NewDatabaseNameWithBranch: no branch names the main database
NewDatabaseNameWithBranch(branch) == IF branch = "" THEN "main" ELSE branch

\* no collection of the name; a collection is its schema version and its schema
NoColl == [ver |-> 0, lvl |-> 0]

\* baseSchemaVersion
baseSchemaVersion == 1

\* a document of an Import batch: its primary key (a batch names at most
\* MaxBatch keys) and its kind
ImportDocs == [key : 1..MaxBatch, kind : 1..(MaxLvl + 1)]

ImportBatches == UNION {[1..n -> ImportDocs] : n \in 1..MaxBatch}

\* schema.Infer(&sch, ..., req.GetDocuments(), ...): sch widened by the documents
Infer(sch, docs) == Max({sch} \cup {docs[i].kind : i \in 1..Len(docs)})

\* coll.Validate(doc) succeeds
Validate(coll, doc) == doc.kind <= coll.lvl

\* schema.ApplySchemaRules(existingCollection, schFactory) returns an error
ApplySchemaRulesFails(existing, lvl) == lvl < existing.lvl \/ lvl > MaxLvl

\* the documents as insertOrReplace meets them: mutateAndValidatePayload(coll, ...)
Validated(coll, docs) ==
    [i \in 1..Len(docs) |-> [key |-> docs[i].key, ok |-> Validate(coll, docs[i])]]

\* Tenant.createCollection / updateCollection on the database object given: the
\* error, the collection the database object holds afterwards, and what the
\* transaction has put in the dictionary and the schema store
TenantCreateCollection(cached, persisted, lvl) ==
    IF cached # NoColl
    THEN IF cached.lvl = lvl
         THEN [err |-> "OK", coll |-> cached, put |-> persisted]
         ELSE IF ApplySchemaRulesFails(cached, lvl)
         THEN [err |-> "InvalidArgument", coll |-> cached, put |-> persisted]
         ELSE IF persisted.ver >= cached.ver + 1
         THEN [err |-> "DuplicateKey", coll |-> cached, put |-> persisted]
         ELSE LET c == [ver |-> cached.ver + 1, lvl |-> lvl]
              IN  [err |-> "OK", coll |-> c, put |-> c]
    ELSE IF persisted # NoColl
         THEN [err |-> "DuplicateKey", coll |-> cached, put |-> persisted]
         ELSE LET c == [ver |-> baseSchemaVersion, lvl |-> lvl]
              IN  [err |-> "OK", coll |-> c, put |-> c]

\* ImportQueryRunner.evolveSchema(rawSchema): infers the schema, then creates or
\* updates the collection in a transaction of its own, in the database that
\* getDatabase(..., req.GetProject(), "") returns.  The database object is the
\* one of the tenant cache.
EvolveSchema(rawSchema, docs, commits) ==
    LET b == NewDatabaseNameWithBranch("")
        r == TenantCreateCollection(iCache[b], iPersist[b], Infer(rawSchema, docs))
        err == IF r.err = "DuplicateKey" THEN "Aborted"
               ELSE IF r.err # "OK" THEN r.err
               ELSE IF commits THEN "OK" ELSE "Conflict"
    IN  [err |-> err, branch |-> b,
         cache |-> [iCache EXCEPT ![b] = r.coll],
         persist |-> IF err = "OK" THEN [iPersist EXCEPT ![b] = r.put] ELSE iPersist]

NoImportReq == [branch |-> "", create |-> FALSE, docs |-> <<>>]

\* the database the request addresses
ReqDb == NewDatabaseNameWithBranch(iReq.branch)

ImportInit ==
    /\ iCache = [b \in Branches |-> NoColl]
    /\ iPersist = [b \in Branches |-> NoColl]
    /\ iRows = [b \in Branches |-> [k \in Keys |-> NoRow]]
    /\ iTx = [k \in Keys |-> NoRow]
    /\ iClock = 0
    /\ iPc = "idle"
    /\ iReq = NoImportReq
    /\ iColl = NoColl
    /\ iResp = "none"
    /\ iMissing = FALSE
    /\ iEvolvedIn = "none"
    /\ iRetried = FALSE

\* Run up to the first attempt: getDBAndCollection with the request's branch
ImportBegin ==
    /\ iPc = "idle"
    /\ iClock + 2 <= MaxImportClock
    /\ \E branch \in ReqBranches, create \in BOOLEAN, docs \in ImportBatches :
        LET coll == iCache[NewDatabaseNameWithBranch(branch)] IN
        /\ iReq' = [branch |-> branch, create |-> create, docs |-> docs]
        /\ iMissing' = (coll = NoColl)
        /\ iTx' = iRows[NewDatabaseNameWithBranch(branch)]
        /\ IF coll = NoColl /\ ~create
           THEN iPc' = "done" /\ iResp' = "NotFound" /\ iColl' = NoColl
           ELSE IF coll = NoColl
           THEN iPc' = "create" /\ iResp' = "none" /\ iColl' = NoColl
           ELSE iPc' = "insert" /\ iResp' = "none" /\ iColl' = coll
    /\ iEvolvedIn' = "none"
    /\ iRetried' = FALSE
    /\ UNCHANGED <<iCache, iPersist, iRows, iClock>>
    /\ UNCHANGED otherThanImport

\* NotFound with create_collection: evolveSchema(nil), then getDBAndCollection
\* with the request's branch again
ImportCreate ==
    /\ iPc = "create"
    /\ \E commits \in BOOLEAN :
        LET e == EvolveSchema(0, iReq.docs, commits)
            coll == e.cache[ReqDb]
        IN  /\ e.cache[e.branch].ver <= MaxVer
            /\ iCache' = e.cache
            /\ iPersist' = e.persist
            /\ iEvolvedIn' = IF e.err = "OK" THEN e.branch ELSE "none"
            /\ IF e.err # "OK"
               THEN iPc' = "done" /\ iResp' = e.err /\ iColl' = NoColl
               ELSE IF coll = NoColl
               THEN iPc' = "done" /\ iResp' = "NotFound" /\ iColl' = NoColl
               ELSE iPc' = "insert" /\ iResp' = "none" /\ iColl' = coll
    /\ UNCHANGED <<iRows, iTx, iClock, iReq, iMissing, iRetried>>
    /\ UNCHANGED otherThanImport

\* the first attempt: insertOrReplace(ctx, tx, tenant, coll, documents, true)
ImportInsert ==
    /\ iPc = "insert"
    /\ LET ts == iClock + 1
           r == InsertOrReplace(iTx, Validated(iColl, iReq.docs), TRUE, FALSE,
                                1, ts, iColl.ver)
       IN  /\ iClock' = ts
           /\ iTx' = r.view
           /\ IF r.err = "OK" THEN iPc' = "commit" /\ iResp' = "INSERTED"
              ELSE IF r.err = "DuplicateKey"
              THEN iPc' = "return" /\ iResp' = "AlreadyExists"
              ELSE iPc' = "evolve" /\ iResp' = "none"
    /\ UNCHANGED <<iCache, iPersist, iRows, iReq, iColl, iMissing, iEvolvedIn, iRetried>>
    /\ UNCHANGED otherThanImport

\* InvalidArgument: tx.Rollback, then evolveSchema(coll.Schema)
ImportEvolve ==
    /\ iPc = "evolve"
    /\ \E commits \in BOOLEAN :
        LET e == EvolveSchema(iColl.lvl, iReq.docs, commits) IN
        /\ e.cache[e.branch].ver <= MaxVer
        /\ iTx' = iRows[ReqDb]
        /\ iCache' = e.cache
        /\ iPersist' = e.persist
        /\ iEvolvedIn' = IF e.err = "OK" THEN e.branch ELSE iEvolvedIn
        /\ IF e.err # "OK"
           THEN iPc' = "done" /\ iResp' = e.err
           ELSE iPc' = "retry" /\ iResp' = "none"
    /\ UNCHANGED <<iRows, iClock, iReq, iColl, iMissing, iRetried>>
    /\ UNCHANGED otherThanImport

\* the retry in a new transaction: insertOrReplace(ctx, tx, tenant, coll,
\* documents, true) with the coll of the first attempt, then tx.Commit
ImportRetry ==
    /\ iPc = "retry"
    /\ LET ts == iClock + 1
           r == InsertOrReplace(iTx, Validated(iColl, iReq.docs), TRUE, FALSE,
                                1, ts, iColl.ver)
       IN  /\ iClock' = ts
           /\ iTx' = r.view
           /\ IF r.err = "OK"
              THEN /\ iPc' = "done"
                   /\ iResp' = "INSERTED"
                   /\ iRows' = [iRows EXCEPT ![ReqDb] = r.view]
              ELSE /\ iPc' = "return"
                   /\ iResp' = IF r.err = "DuplicateKey" THEN "AlreadyExists" ELSE r.err
                   /\ UNCHANGED iRows
    /\ iRetried' = TRUE
    /\ UNCHANGED <<iCache, iPersist, iReq, iColl, iMissing, iEvolvedIn>>
    /\ UNCHANGED otherThanImport

\* Run returned an error: the transaction of the attempt is rolled back
ImportReturn ==
    /\ iPc = "return"
    /\ iTx' = iRows[ReqDb]
    /\ iPc' = "done"
    /\ UNCHANGED <<iCache, iPersist, iRows, iClock, iReq, iColl, iResp,
                   iMissing, iEvolvedIn, iRetried>>
    /\ UNCHANGED otherThanImport

\* Run returned the response of the first attempt: the session commits
ImportCommit ==
    /\ iPc = "commit"
    /\ iRows' = [iRows EXCEPT ![ReqDb] = iTx]
    /\ iPc' = "done"
    /\ UNCHANGED <<iCache, iPersist, iTx, iClock, iReq, iColl, iResp,
                   iMissing, iEvolvedIn, iRetried>>
    /\ UNCHANGED otherThanImport

\* the response or the error is with the client: the runner of the request and
\* its transaction are gone
ImportDone ==
    /\ iPc = "done"
    /\ iPc' = "idle"
    /\ iTx' = [k \in Keys |-> NoRow]
    /\ iReq' = NoImportReq
    /\ iColl' = NoColl
    /\ iResp' = "none"
    /\ iMissing' = FALSE
    /\ iEvolvedIn' = "none"
    /\ iRetried' = FALSE
    /\ UNCHANGED <<iCache, iPersist, iRows, iClock>>
    /\ UNCHANGED otherThanImport

\* another server commits the creation of the collection in one of the
\* databases; this server's cache is as it was
RemoteCreate ==
    /\ iPc = "idle"
    /\ \E b \in Branches, lvl \in 1..MaxLvl :
        /\ iPersist[b] = NoColl
        /\ iPersist' = [iPersist EXCEPT ![b] = [ver |-> baseSchemaVersion, lvl |-> lvl]]
    /\ UNCHANGED <<iCache, iRows, iTx, iClock, iPc, iReq, iColl, iResp,
                   iMissing, iEvolvedIn, iRetried>>
    /\ UNCHANGED otherThanImport

\* Tenant.Reload: the cache is rebuilt from the dictionary and the schema store
Reload ==
    /\ iPc = "idle"
    /\ iCache # iPersist
    /\ iCache' = iPersist
    /\ UNCHANGED <<iPersist, iRows, iTx, iClock, iPc, iReq, iColl, iResp,
                   iMissing, iEvolvedIn, iRetried>>
    /\ UNCHANGED otherThanImport

(***************************************************************************)
(* Concurrent CreateOrUpdateCollection of one collection name in one       *)
(* database.  The dictionary, the schema store and the transactions of the *)
(* KV store are not among the sources: a transaction reads the dictionary  *)
(* as of its first read, the dictionary's CreateCollection returns         *)
(* DuplicateKey for a name that is active there, and a commit fails with a *)
(* conflict when a transaction committed since has written what it read.   *)
(***************************************************************************)
Txs == 1..MaxTx

InvalidId == 0

\* metaStore.CreateCollection(ctx, tx, name, namespace, database): the error and
\* the id allocated
DictCreateCollection(name, counter) ==
    IF name # InvalidId THEN [err |-> "DuplicateKey", id |-> InvalidId]
    ELSE [err |-> "OK", id |-> counter + 1]

\* Tenant.createCollection on the staged clone: nothing to do for a collection
\* the clone holds with an equal schema; a dictionary entry, its indexes and
\* schema version baseSchemaVersion otherwise
CreateCollectionOnClone(cached, name, counter) ==
    IF cached # InvalidId THEN [err |-> "OK", id |-> InvalidId]
    ELSE DictCreateCollection(name, counter)

\* a Run that returns the error of tenant.CreateCollection as it is
UntranslatedError(err) == err

\* CollectionQueryRunner.Run: kv.ErrDuplicateKey of tenant.CreateCollection
\* becomes Aborted("concurrent create collection request, aborting")
CreateRunError(err) == IF err = "DuplicateKey" THEN "Aborted" ELSE err

DDLInit ==
    /\ dName = InvalidId
    /\ dCounter = 0
    /\ dSchemas = {}
    /\ dSeq = 0
    /\ dCache = [t \in Txs |-> InvalidId]
    /\ dPc = [t \in Txs |-> "idle"]
    /\ dOnlyCreate = [t \in Txs |-> FALSE]
    /\ dSnap = [t \in Txs |-> 0]
    /\ dStaged = [t \in Txs |-> InvalidId]
    /\ dDup = [t \in Txs |-> FALSE]
    /\ dResp = [t \in Txs |-> "none"]
    /\ dCount = 0

\* CollectionQueryRunner.Run, case createOrUpdateReq, in the transaction of
\* session t
CreateRun(t) ==
    /\ dPc[t] \in {"idle", "done"}
    /\ dCount < MaxDDL
    /\ dCount' = dCount + 1
    /\ \E onlyCreate \in BOOLEAN :
        LET r == CreateCollectionOnClone(dCache[t], dName, dCounter) IN
        /\ dOnlyCreate' = [dOnlyCreate EXCEPT ![t] = onlyCreate]
        /\ dSnap' = [dSnap EXCEPT ![t] = dSeq]
        /\ IF dCache[t] # InvalidId /\ onlyCreate
           THEN /\ dResp' = [dResp EXCEPT ![t] = "AlreadyExists"]
                /\ dPc' = [dPc EXCEPT ![t] = "done"]
                /\ dStaged' = [dStaged EXCEPT ![t] = InvalidId]
                /\ dDup' = [dDup EXCEPT ![t] = FALSE]
           ELSE IF r.err # "OK"
           THEN /\ dResp' = [dResp EXCEPT ![t] = CreateRunError(r.err)]
                /\ dPc' = [dPc EXCEPT ![t] = "done"]
                /\ dStaged' = [dStaged EXCEPT ![t] = InvalidId]
                /\ dDup' = [dDup EXCEPT ![t] = (r.err = "DuplicateKey")]
           ELSE /\ dResp' = [dResp EXCEPT ![t] = "CREATED"]
                /\ dPc' = [dPc EXCEPT ![t] = "commit"]
                /\ dStaged' = [dStaged EXCEPT ![t] = r.id]
                /\ dDup' = [dDup EXCEPT ![t] = FALSE]
    /\ UNCHANGED <<dName, dCounter, dSchemas, dSeq, dCache>>
    /\ UNCHANGED otherThanDDL

\* the transaction of session t has read a dictionary that was written since
Conflicts(t) == dStaged[t] # InvalidId /\ dSeq # dSnap[t]

\* the session commits: the dictionary entry and the schema are written, and the
\* staged clone becomes the database of the worker's tenant cache
CommitDDL(t) ==
    /\ dPc[t] = "commit"
    /\ ~Conflicts(t)
    /\ dPc' = [dPc EXCEPT ![t] = "done"]
    /\ IF dStaged[t] # InvalidId
       THEN /\ dName' = dStaged[t]
            /\ dCounter' = dStaged[t]
            /\ dSchemas' = dSchemas \cup {<<dStaged[t], baseSchemaVersion>>}
            /\ dSeq' = dSeq + 1
            /\ dCache' = [dCache EXCEPT ![t] = dStaged[t]]
       ELSE UNCHANGED <<dName, dCounter, dSchemas, dSeq, dCache>>
    /\ UNCHANGED <<dOnlyCreate, dSnap, dStaged, dDup, dResp, dCount>>
    /\ UNCHANGED otherThanDDL

\* the commit fails with a conflict: nothing is written, the clone is dropped
CommitConflict(t) ==
    /\ dPc[t] = "commit"
    /\ Conflicts(t)
    /\ dPc' = [dPc EXCEPT ![t] = "done"]
    /\ dResp' = [dResp EXCEPT ![t] = "Conflict"]
    /\ UNCHANGED <<dName, dCounter, dSchemas, dSeq, dCache, dOnlyCreate, dSnap,
                   dStaged, dDup, dCount>>
    /\ UNCHANGED otherThanDDL

\* Tenant.Reload on the worker of session t: its cache is rebuilt from the
\* dictionary
ReloadTenant(t) ==
    /\ dPc[t] \in {"idle", "done"}
    /\ dCache[t] # dName
    /\ dCache' = [dCache EXCEPT ![t] = dName]
    /\ UNCHANGED <<dName, dCounter, dSchemas, dSeq, dPc, dOnlyCreate, dSnap,
                   dStaged, dDup, dResp, dCount>>
    /\ UNCHANGED otherThanDDL

(***************************************************************************)
(* The tenant cache and its version (TenantManager, Tenant).               *)
(***************************************************************************)
Workers == 1..MaxWorkers
\* a nil Version: bytes.Compare orders it below every version
NilVersion == 0
NotReserved == 0

\* what a transaction reading at metadata version snap finds for the tenant
PersistedView(snap) == {n \in tDDLs : n <= snap}
ReservedAt(snap) == tReserved # NotReserved /\ tReserved <= snap

\* Tenant.shouldReload: bytes.Compare(currentVersion, tenant.version) > 0
shouldReload(currentVersion) == currentVersion > tVersion

\* Tenant.reload(ctx, tx, currentVersion, ...): resets tenant.projects, reads
\* the databases, collections and search indexes through tx, and sets
\* tenant.version last; an error of the first read returns with the maps reset
reload(snap, currentVersion, fails, oldVersion) ==
    IF fails
    THEN [projects |-> {}, version |-> oldVersion, err |-> TRUE]
    ELSE [projects |-> PersistedView(snap), version |-> currentVersion, err |-> FALSE]

TenantInit ==
    /\ tGlobal = 1
    /\ tDDLs = {}
    /\ tReserved \in {NotReserved, 1}
    /\ tCached = FALSE
    /\ tVersion = NilVersion
    /\ tView = {}
    /\ tMLock = 0
    /\ tPc = [w \in Workers |-> "idle"]
    /\ tSnap = [w \in Workers |-> 0]

\* the tenant subsystem at rest
TenantIdle ==
    /\ tGlobal = 1
    /\ tDDLs = {}
    /\ tReserved = NotReserved
    /\ tCached = FALSE
    /\ tVersion = NilVersion
    /\ tView = {}
    /\ tMLock = 0
    /\ tPc = [w \in Workers |-> "idle"]
    /\ tSnap = [w \in Workers |-> 0]

\* a worker starts the transaction of a request; its reads see the metadata
\* version of that moment
TenantStartTx(w) ==
    /\ tPc[w] = "idle"
    /\ tPc' = [tPc EXCEPT ![w] = "tx"]
    /\ tSnap' = [tSnap EXCEPT ![w] = tGlobal]
    /\ UNCHANGED <<tGlobal, tDDLs, tReserved, tCached, tVersion, tView, tMLock>>
    /\ UNCHANGED otherThanTenant

\* the commit of a transaction that ran a DDL of this tenant (on any server)
\* increments the metadata version
DDLCommitBumps ==
    /\ tReserved # NotReserved
    /\ tGlobal < MaxMeta
    /\ tGlobal' = tGlobal + 1
    /\ tDDLs' = tDDLs \cup {tGlobal + 1}
    /\ UNCHANGED <<tReserved, tCached, tVersion, tView, tMLock, tPc, tSnap>>
    /\ UNCHANGED otherThanTenant

\* Tenant.Reload(ctx, tx, version) with the version the worker's transaction
\* read; the check under the tenant lock and reload are one step
TenantReload(w) ==
    /\ tPc[w] = "tx"
    /\ tCached
    /\ \E fails \in BOOLEAN :
        LET r == reload(tSnap[w], tSnap[w], fails, tVersion) IN
        IF shouldReload(tSnap[w])
        THEN tView' = r.projects /\ tVersion' = r.version
        ELSE UNCHANGED <<tView, tVersion>>
    /\ tPc' = [tPc EXCEPT ![w] = "idle"]
    /\ UNCHANGED <<tGlobal, tDDLs, tReserved, tCached, tMLock, tSnap>>
    /\ UNCHANGED otherThanTenant

\* TenantManager.Reload up to "currentVersion, err := m.versionH.Read(ctx, tx,
\* false)": the manager lock is taken and the version is read through tx
ManagerReloadBegin(w) ==
    /\ tPc[w] = "tx"
    /\ tMLock = 0
    /\ tMLock' = w
    /\ tPc' = [tPc EXCEPT ![w] = "mreload"]
    /\ UNCHANGED <<tGlobal, tDDLs, tReserved, tCached, tVersion, tView, tSnap>>
    /\ UNCHANGED otherThanTenant

\* TenantManager.reload: a reserved namespace that is not cached gets a new
\* Tenant with currentVersion, then every cached tenant is reloaded under its
\* lock with currentVersion
ManagerReloadTenants(w) ==
    /\ tPc[w] = "mreload"
    /\ \E fails \in BOOLEAN :
        LET added == ~tCached /\ ReservedAt(tSnap[w])
            old == IF added THEN tSnap[w] ELSE tVersion
            r == reload(tSnap[w], tSnap[w], fails, old)
        IN  IF tCached \/ added
            THEN tCached' = TRUE /\ tView' = r.projects /\ tVersion' = r.version
            ELSE UNCHANGED <<tCached, tView, tVersion>>
    /\ tMLock' = 0
    /\ tPc' = [tPc EXCEPT ![w] = "idle"]
    /\ UNCHANGED <<tGlobal, tDDLs, tReserved, tSnap>>
    /\ UNCHANGED otherThanTenant

\* TenantManager.GetTenant: the cached tenant, or under the manager lock a new
\* Tenant loaded in a transaction of its own and cached when that commits
GetTenant(w) ==
    /\ tPc[w] = "idle"
    /\ ~tCached
    /\ tMLock = 0
    /\ \E fails \in BOOLEAN, commits \in BOOLEAN :
        LET r == reload(tGlobal, tGlobal, fails, tGlobal) IN
        IF ReservedAt(tGlobal) /\ ~r.err /\ commits
        THEN tCached' = TRUE /\ tView' = r.projects /\ tVersion' = r.version
        ELSE UNCHANGED <<tCached, tView, tVersion>>
    /\ UNCHANGED <<tGlobal, tDDLs, tReserved, tMLock, tPc, tSnap>>
    /\ UNCHANGED otherThanTenant

\* TenantManager.CreateOrGetTenant with createOrGetTenantInternal: a reserved
\* namespace is loaded as in GetTenant; otherwise the version is incremented,
\* the namespace reserved and a Tenant with a nil version cached on commit
CreateOrGetTenant(w) ==
    /\ tPc[w] = "idle"
    /\ ~tCached
    /\ tMLock = 0
    /\ \E fails \in BOOLEAN, commits \in BOOLEAN :
        LET r == reload(tGlobal, tGlobal, fails, tGlobal) IN
        IF ReservedAt(tGlobal)
        THEN /\ IF ~r.err /\ commits
                THEN tCached' = TRUE /\ tView' = r.projects /\ tVersion' = r.version
                ELSE UNCHANGED <<tCached, tView, tVersion>>
             /\ UNCHANGED <<tGlobal, tReserved>>
        ELSE IF commits /\ tGlobal < MaxMeta
        THEN /\ tGlobal' = tGlobal + 1
             /\ tReserved' = tGlobal + 1
             /\ tCached' = TRUE
             /\ tVersion' = NilVersion
             /\ tView' = {}
        ELSE UNCHANGED <<tGlobal, tReserved, tCached, tView, tVersion>>
    /\ UNCHANGED <<tDDLs, tMLock, tPc, tSnap>>
    /\ UNCHANGED otherThanTenant


(***************************************************************************)
(* The search mirror (SearchIndexer.OnPostCommit).                         *)
(***************************************************************************)
HookKeys == 1..MaxHookKey
\* no row / no document under a key
NoDoc == 0

\* kv events: Op, Key, Data; known says that DecodeTableName(event.Table)
\* finds the table and the database has the collection
KnownEvents ==
    [op : {"insert", "replace", "update"}, key : HookKeys,
     data : 1..MaxHookVal, known : {TRUE}]
        \cup [op : {"delete"}, key : HookKeys, data : {NoDoc}, known : {TRUE}]
StaleEvent == [op |-> "insert", key |-> 1, data |-> 1, known |-> FALSE]
Events == KnownEvents \cup {StaleEvent}
EventLists == UNION {[1..n -> Events] : n \in 1..MaxEvents}

\* the write a transaction did for an event of the collection
ApplyEvent(rows, e) ==
    IF ~e.known THEN rows ELSE [rows EXCEPT ![e.key] = e.data]

RECURSIVE ApplyEvents(_, _)
ApplyEvents(rows, evs) ==
    IF evs = <<>> THEN rows
    ELSE ApplyEvents(ApplyEvent(rows, Head(evs)), Tail(evs))

\* the writes the kv transaction accepts: Insert needs a free key, Update and
\* Delete come from rows the runner has read
RECURSIVE ValidEvents(_, _)
ValidEvents(rows, evs) ==
    IF evs = <<>> THEN TRUE
    ELSE LET e == Head(evs)
             ok == \/ ~e.known
                   \/ e.op = "replace"
                   \/ e.op = "insert" /\ rows[e.key] = NoDoc
                   \/ e.op \in {"update", "delete"} /\ rows[e.key] # NoDoc
         IN  ok /\ ValidEvents(ApplyEvent(rows, e), Tail(evs))

\* the switch on event.Op
IndexAction(op) ==
    CASE op = "insert" -> "Create"
      [] op = "replace" -> "Replace"
      [] op = "update" -> "Update"

\* search.Store.IndexDocuments with one document: Create adds a document that
\* is not there, Replace puts it, Update changes one that is there
IndexDocuments(index, action, key, data) ==
    IF \/ action = "Replace"
       \/ action = "Create" /\ index[key] = NoDoc
       \/ action = "Update" /\ index[key] # NoDoc
    THEN [index EXCEPT ![key] = data]
    ELSE index

\* search.Store.DeleteDocument: NotFound when the document is not there
DeleteDocument(index, key) ==
    IF index[key] = NoDoc
    THEN [err |-> "NotFound", index |-> index]
    ELSE [err |-> "OK", index |-> [index EXCEPT ![key] = NoDoc]]

HookInit ==
    /\ hRows = [k \in HookKeys |-> NoDoc]
    /\ hImplicit = [k \in HookKeys |-> NoDoc]
    /\ hExplicit = [k \in HookKeys |-> NoDoc]
    /\ hLinked \in BOOLEAN
    /\ hEvents = <<>>
    /\ hI = 0
    /\ hPc = "idle"
    /\ hOps = <<>>
    /\ hErr = "none"
    /\ hNotFoundAt = 0
    /\ hTxNo = 0

\* the mirror at rest
HookIdle ==
    /\ hRows = [k \in HookKeys |-> NoDoc]
    /\ hImplicit = [k \in HookKeys |-> NoDoc]
    /\ hExplicit = [k \in HookKeys |-> NoDoc]
    /\ hLinked = FALSE
    /\ hEvents = <<>>
    /\ hI = 0
    /\ hPc = "idle"
    /\ hOps = <<>>
    /\ hErr = "none"
    /\ hNotFoundAt = 0
    /\ hTxNo = 0

\* a transaction commits its writes and the session calls OnPostCommit with
\* the events the transaction recorded
HookCommit ==
    /\ hPc = "idle"
    /\ hTxNo < MaxHookTx
    /\ \E evs \in EventLists :
        /\ ValidEvents(hRows, evs)
        /\ hEvents' = evs
        /\ hRows' = ApplyEvents(hRows, evs)
    /\ hI' = 1
    /\ hPc' = "run"
    /\ hOps' = <<>>
    /\ hErr' = "none"
    /\ hNotFoundAt' = 0
    /\ hTxNo' = hTxNo + 1
    /\ UNCHANGED <<hImplicit, hExplicit, hLinked>>
    /\ UNCHANGED otherThanHook

\* DecodeTableName finds no table, or the collection is gone: continue
OnPostCommitSkip ==
    /\ hPc = "run"
    /\ hI <= Len(hEvents)
    /\ ~hEvents[hI].known
    /\ hI' = hI + 1
    /\ UNCHANGED <<hRows, hImplicit, hExplicit, hLinked, hEvents, hPc, hOps,
                   hErr, hNotFoundAt, hTxNo>>
    /\ UNCHANGED otherThanHook

\* event.Op == kv.DeleteEvent: DeleteDocument on the implicit index; an error
\* is returned unless it is NotFound, and after NotFound the hook returns nil
OnPostCommitDelete ==
    /\ hPc = "run"
    /\ hI <= Len(hEvents)
    /\ hEvents[hI].known
    /\ hEvents[hI].op = "delete"
    /\ hOps' = Append(hOps, [index |-> "implicit", action |-> "DeleteDocument",
                             key |-> hEvents[hI].key])
    /\ \E fails \in BOOLEAN :
        LET r == DeleteDocument(hImplicit, hEvents[hI].key) IN
        IF fails
        THEN /\ hPc' = "done" /\ hErr' = "error"
             /\ UNCHANGED <<hImplicit, hI, hNotFoundAt>>
        ELSE IF r.err = "NotFound"
        THEN /\ hPc' = "done" /\ hErr' = "nil" /\ hNotFoundAt' = hI
             /\ UNCHANGED <<hImplicit, hI>>
        ELSE /\ hImplicit' = r.index /\ hI' = hI + 1
             /\ UNCHANGED <<hPc, hErr, hNotFoundAt>>
    /\ UNCHANGED <<hRows, hExplicit, hLinked, hEvents, hTxNo>>
    /\ UNCHANGED otherThanHook

\* the other events: IndexDocuments on the implicit index with the action of
\* the event, batch size 1; an error is returned
OnPostCommitIndex ==
    /\ hPc = "run"
    /\ hI <= Len(hEvents)
    /\ hEvents[hI].known
    /\ hEvents[hI].op # "delete"
    /\ LET e == hEvents[hI] IN
        /\ hOps' = Append(hOps, [index |-> "implicit", action |-> IndexAction(e.op),
                                 key |-> e.key])
        /\ \E fails \in BOOLEAN :
            IF fails
            THEN /\ hPc' = "done" /\ hErr' = "error"
                 /\ UNCHANGED <<hImplicit, hI>>
            ELSE /\ hImplicit' = IndexDocuments(hImplicit, IndexAction(e.op),
                                                e.key, e.data)
                 /\ hI' = hI + 1
                 /\ UNCHANGED <<hPc, hErr>>
    /\ UNCHANGED <<hRows, hExplicit, hLinked, hEvents, hNotFoundAt, hTxNo>>
    /\ UNCHANGED otherThanHook

\* the loop is over: return nil
OnPostCommitReturn ==
    /\ hPc = "run"
    /\ hI > Len(hEvents)
    /\ hPc' = "done"
    /\ hErr' = "nil"
    /\ UNCHANGED <<hRows, hImplicit, hExplicit, hLinked, hEvents, hI, hOps,
                   hNotFoundAt, hTxNo>>
    /\ UNCHANGED otherThanHook

\* the session goes on to its next transaction
HookNext ==
    /\ hPc = "done"
    /\ hPc' = "idle"
    /\ hEvents' = <<>>
    /\ hI' = 0
    /\ hOps' = <<>>
    /\ hErr' = "none"
    /\ hNotFoundAt' = 0
    /\ UNCHANGED <<hRows, hImplicit, hExplicit, hLinked, hTxNo>>
    /\ UNCHANGED otherThanHook


(***************************************************************************)
(* Projects and branches (Tenant.CreateBranch, DeleteBranch,               *)
(* DeleteProject; BaseQueryRunner.getDatabase).                             *)
(***************************************************************************)
PBranches == {"dev"}
AllDbs == {"main"} \cup PBranches
PColls == {"c1", "c2"}
PIndexes == {"i1"}
NoDb == 0
NoColls == [c \in PColls |-> 0]
\* the source of an explicit search index: a collection of a database of the
\* project (source tigris), or an external one
External == [branch |-> "none", coll |-> "none"]
NoIndex == [branch |-> "", coll |-> ""]
Sources == [branch : AllDbs, coll : PColls] \cup {External}
NoStaged == [branch |-> "none", colls |-> NoColls]
NoLast == [op |-> "none", branch |-> "", coll |-> "", err |-> "OK", rows |-> {},
           db |-> ""]

\* MetadataDictionary.CreateDatabase: the next id of the counter
CreateDatabase(counter) == counter + 1

\* collection.SearchIndexes as Tenant.reload links them: the indexes with
\* source tigris whose source database has the source collection
SearchIndexes(b, c) ==
    IF pColls[b][c] = 0 THEN {}
    ELSE {i \in PIndexes : pIdx[i] = [branch |-> b, coll |-> c]}

\* Tenant.deleteSearchIndex inside a transaction st: NotFound when the
\* project metadata the transaction reads does not list the index
deleteSearchIndex(st, i) ==
    IF st.err # "OK" THEN st
    ELSE IF st.idx[i] = NoIndex THEN [st EXCEPT !.err = "NotFound"]
    ELSE [st EXCEPT !.idx[i] = NoIndex]

RECURSIVE deleteSearchIndexes(_, _)
deleteSearchIndexes(st, is) ==
    IF is = {} THEN st
    ELSE LET i == CHOOSE x \in is : TRUE
         IN  deleteSearchIndexes(deleteSearchIndex(st, i), is \ {i})

\* Tenant.dropCollection inside a transaction st
dropCollection(st, b, c) ==
    IF st.err # "OK" THEN st ELSE [st EXCEPT !.colls[b][c] = 0]

\* the loop of deleteBranch over branch.collections: dropCollection, then
\* deleteSearchIndex for each of the collection's SearchIndexes
RECURSIVE dropBranchCollections(_, _, _)
dropBranchCollections(st, b, cs) ==
    IF cs = {} THEN st
    ELSE LET c == CHOOSE x \in cs : TRUE
         IN  dropBranchCollections(
                 deleteSearchIndexes(dropCollection(st, b, c), SearchIndexes(b, c)),
                 b, cs \ {c})

\* Tenant.deleteBranch inside a transaction st
deleteBranch(st, b) ==
    IF st.err # "OK" THEN st
    ELSE IF st.dbs[b] = NoDb THEN [st EXCEPT !.err = "BranchNotFound"]
    ELSE dropBranchCollections([st EXCEPT !.dbs[b] = NoDb], b,
                               {c \in PColls : pColls[b][c] # 0})

RECURSIVE deleteBranches(_, _)
deleteBranches(st, bs) ==
    IF bs = {} THEN st
    ELSE LET b == CHOOSE x \in bs : TRUE
         IN  deleteBranches(deleteBranch(st, b), bs \ {b})

RECURSIVE dropCollections(_, _, _)
dropCollections(st, b, cs) ==
    IF cs = {} THEN st
    ELSE LET c == CHOOSE x \in cs : TRUE
         IN  dropCollections(dropCollection(st, b, c), b, cs \ {c})

\* what Tenant.DeleteProject does in its transaction: every branch of
\* proj.databaseBranches, the main database, its collections, every index of
\* proj.search.indexes, the project metadata
DeleteProjectRun ==
    LET st0 == [dbs |-> pDbs, colls |-> pColls, idx |-> pIdx, meta |-> pMeta,
                err |-> "OK"]
        st1 == deleteBranches(st0, {b \in PBranches : pDbs[b] # NoDb})
        st2 == IF st1.err # "OK" THEN st1 ELSE [st1 EXCEPT !.dbs["main"] = NoDb]
        st3 == dropCollections(st2, "main", {c \in PColls : pColls["main"][c] # 0})
        st4 == deleteSearchIndexes(st3, {i \in PIndexes : pIdx[i] # NoIndex})
    IN  IF st4.err # "OK" THEN st4 ELSE [st4 EXCEPT !.meta = FALSE]

\* a CreateBranch that creates no collection in the branch
NoBranchCollections(main) == NoColls

\* the loop of CreateBranch over proj.database.ListCollection(): createCollection
\* in the branch with schema.Build(coll.Name, coll.Schema)
BranchCollections(main) == [c \in PColls |-> main[c]]

\* an error handed on as it is
RawApiError(e) == e

\* createApiError: the metadata errors as API errors
createApiError(e) ==
    CASE e \in {"DatabaseNotFound", "BranchNotFound", "ProjectNotFound"} -> "NotFound"
      [] e \in {"BranchExists", "DatabaseExists"} -> "AlreadyExists"
      [] e = "CannotDeleteBranch" -> "InvalidArgument"
      [] OTHER -> e

\* a getDatabase that never looks at the transaction's staged database
cachedDatabase(branch) ==
    IF pDbs[branch] = NoDb
    THEN [err |-> "NotFound", branch |-> branch, colls |-> NoColls]
    ELSE [err |-> "OK", branch |-> branch, colls |-> pColls[branch]]

\* BaseQueryRunner.getDatabase: the staged database of the transaction if it
\* has one, otherwise the database of the requested branch from the cache
getDatabase(branch) ==
    IF pStaged # NoStaged
    THEN [err |-> "OK", branch |-> pStaged.branch, colls |-> pStaged.colls]
    ELSE IF pDbs[branch] = NoDb
    THEN [err |-> "NotFound", branch |-> branch, colls |-> NoColls]
    ELSE [err |-> "OK", branch |-> branch, colls |-> pColls[branch]]

ProjInit ==
    /\ pCounter = 0
    /\ pDbs = [b \in AllDbs |-> NoDb]
    /\ pColls = [b \in AllDbs |-> NoColls]
    /\ pRows = {}
    /\ pMeta = FALSE
    /\ pIdx = [i \in PIndexes |-> NoIndex]
    /\ pStaged = NoStaged
    /\ pLast = NoLast

\* no project
ProjIdle == ProjInit

\* Tenant.CreateProject with project metadata
CreateProject ==
    /\ pStaged = NoStaged
    /\ pDbs["main"] = NoDb
    /\ pCounter < MaxDbId
    /\ pCounter' = CreateDatabase(pCounter)
    /\ pDbs' = [pDbs EXCEPT !["main"] = CreateDatabase(pCounter)]
    /\ pMeta' = TRUE
    /\ pLast' = NoLast
    /\ UNCHANGED <<pColls, pRows, pIdx, pStaged>>
    /\ UNCHANGED otherThanProj

\* a CreateOrUpdateCollection request in a transaction of its own, committed
ProjectCreateCollection ==
    /\ pStaged = NoStaged
    /\ \E b \in AllDbs, c \in PColls, s \in 1..MaxSchema :
        /\ pDbs[b] # NoDb
        /\ pColls[b][c] # s
        /\ pColls' = [pColls EXCEPT ![b][c] = s]
    /\ pLast' = NoLast
    /\ UNCHANGED <<pCounter, pDbs, pRows, pMeta, pIdx, pStaged>>
    /\ UNCHANGED otherThanProj

\* Tenant.CreateSearchIndex of a new index, committed
ProjectCreateSearchIndex ==
    /\ pStaged = NoStaged
    /\ pDbs["main"] # NoDb
    /\ \E i \in PIndexes, src \in Sources :
        /\ pIdx[i] = NoIndex
        /\ pIdx' = [pIdx EXCEPT ![i] = src]
    /\ pLast' = NoLast
    /\ UNCHANGED <<pCounter, pDbs, pColls, pRows, pMeta, pStaged>>
    /\ UNCHANGED otherThanProj

\* an Insert of another session into collection c of branch b, committed
ProjectInsert ==
    /\ \E b \in AllDbs, c \in PColls, k \in 1..MaxProjKey :
        /\ pDbs[b] # NoDb
        /\ pColls[b][c] # 0
        /\ <<pDbs[b], c, k>> \notin pRows
        /\ pRows' = pRows \cup {<<pDbs[b], c, k>>}
    /\ pLast' = NoLast
    /\ UNCHANGED <<pCounter, pDbs, pColls, pMeta, pIdx, pStaged>>
    /\ UNCHANGED otherThanProj

\* Tenant.CreateBranch, committed
CreateBranch ==
    /\ pStaged = NoStaged
    /\ pDbs["main"] # NoDb
    /\ \E b \in PBranches :
        IF pDbs[b] # NoDb
        THEN /\ pLast' = [NoLast EXCEPT !.op = "CreateBranch", !.branch = b,
                                        !.err = createApiError("BranchExists")]
             /\ UNCHANGED <<pCounter, pDbs, pColls>>
        ELSE /\ pCounter < MaxDbId
             /\ pCounter' = CreateDatabase(pCounter)
             /\ pDbs' = [pDbs EXCEPT ![b] = CreateDatabase(pCounter)]
             /\ pColls' = [pColls EXCEPT ![b] = BranchCollections(pColls["main"])]
             /\ pLast' = [NoLast EXCEPT !.op = "CreateBranch", !.branch = b]
    /\ UNCHANGED <<pRows, pMeta, pIdx, pStaged>>
    /\ UNCHANGED otherThanProj

\* BranchQueryRunner.Run with a DeleteBranchRequest: Tenant.DeleteBranch
\* refuses the main branch, otherwise deleteBranch; the transaction commits
\* when no error is returned and is rolled back otherwise
DeleteBranch ==
    /\ pStaged = NoStaged
    /\ pDbs["main"] # NoDb
    /\ \E req \in {"", "main"} \cup PBranches :
        LET b == NewDatabaseNameWithBranch(req)
            st0 == [dbs |-> pDbs, colls |-> pColls, idx |-> pIdx,
                    meta |-> pMeta, err |-> "OK"]
            st == IF b = "main" THEN [st0 EXCEPT !.err = "CannotDeleteBranch"]
                  ELSE deleteBranch(st0, b)
        IN  /\ pLast' = [NoLast EXCEPT !.op = "DeleteBranch", !.branch = b,
                                       !.err = createApiError(st.err)]
            /\ IF st.err = "OK"
               THEN pDbs' = st.dbs /\ pColls' = st.colls /\ pIdx' = st.idx
               ELSE UNCHANGED <<pDbs, pColls, pIdx>>
    /\ UNCHANGED <<pCounter, pRows, pMeta, pStaged>>
    /\ UNCHANGED otherThanProj

\* Tenant.DeleteProject of the project; the transaction commits when it
\* returns no error and is rolled back otherwise
DeleteProject ==
    /\ pStaged = NoStaged
    /\ pDbs["main"] # NoDb
    /\ LET st == DeleteProjectRun IN
        /\ pLast' = [NoLast EXCEPT !.op = "DeleteProject", !.err = st.err]
        /\ IF st.err = "OK"
           THEN pDbs' = st.dbs /\ pColls' = st.colls /\ pIdx' = st.idx
                /\ pMeta' = st.meta
           ELSE UNCHANGED <<pDbs, pColls, pIdx, pMeta>>
    /\ UNCHANGED <<pCounter, pRows, pStaged>>
    /\ UNCHANGED otherThanProj

\* CollectionQueryRunner.Run, create case, in the session's explicit
\* transaction: getDatabase, clone and stage unless a database is staged,
\* CreateCollection on the staged database
TxCreateCollection ==
    /\ \E b \in AllDbs, c \in PColls, s \in 1..MaxSchema :
        LET db == getDatabase(b) IN
        /\ db.err = "OK"
        /\ db.colls[c] # s
        /\ pStaged' = [branch |-> db.branch, colls |-> [db.colls EXCEPT ![c] = s]]
    /\ pLast' = NoLast
    /\ UNCHANGED <<pCounter, pDbs, pColls, pRows, pMeta, pIdx>>
    /\ UNCHANGED otherThanProj

\* CollectionQueryRunner.Run, drop case, in the session's explicit
\* transaction: getDatabase, clone and stage unless a database is staged,
\* getCollection, DropCollection on the staged database
TxDropCollection ==
    /\ \E b \in AllDbs, c \in PColls :
        LET db == getDatabase(b) IN
        /\ db.err = "OK"
        /\ IF db.colls[c] = 0
           THEN /\ pStaged' = [branch |-> db.branch, colls |-> db.colls]
                /\ pLast' = [NoLast EXCEPT !.op = "DropCollection", !.branch = b,
                                           !.coll = c, !.err = "NotFound",
                                           !.db = db.branch]
           ELSE /\ pStaged' = [branch |-> db.branch, colls |-> [db.colls EXCEPT ![c] = 0]]
                /\ pLast' = [NoLast EXCEPT !.op = "DropCollection", !.branch = b,
                                           !.coll = c, !.db = db.branch]
    /\ UNCHANGED <<pCounter, pDbs, pColls, pRows, pMeta, pIdx>>
    /\ UNCHANGED otherThanProj

\* a Read of collection c of branch b by another session, which has no
\* staged database: getDatabase with the tenant's cached database
OtherRead ==
    /\ \E b \in AllDbs, c \in PColls :
        LET db == cachedDatabase(b)
            err == IF db.err # "OK" THEN db.err
                   ELSE IF db.colls[c] = 0 THEN "NotFound" ELSE "OK"
        IN  pLast' = [op |-> "OtherRead", branch |-> b, coll |-> c, err |-> err,
                      rows |-> IF err # "OK" THEN {}
                               ELSE {r \in pRows : r[1] = pDbs[b] /\ r[2] = c},
                      db |-> IF db.err = "OK" THEN db.branch ELSE ""]
    /\ UNCHANGED <<pCounter, pDbs, pColls, pRows, pMeta, pIdx, pStaged>>
    /\ UNCHANGED otherThanProj

\* a Read of collection c of branch b in the session's transaction:
\* getDBAndCollection, then the rows of the collection's table
TxRead ==
    /\ \E b \in AllDbs, c \in PColls :
        LET db == getDatabase(b)
            err == IF db.err # "OK" THEN db.err
                   ELSE IF db.colls[c] = 0 THEN "NotFound" ELSE "OK"
        IN  pLast' = [op |-> "Read", branch |-> b, coll |-> c, err |-> err,
                      rows |-> IF err # "OK" THEN {}
                               ELSE {r \in pRows : r[1] = pDbs[db.branch] /\ r[2] = c},
                      db |-> IF db.err = "OK" THEN db.branch ELSE ""]
    /\ UNCHANGED <<pCounter, pDbs, pColls, pRows, pMeta, pIdx, pStaged>>
    /\ UNCHANGED otherThanProj

\* the session's explicit transaction ends: commit publishes the staged
\* database, rollback discards it
TxEnd ==
    /\ pStaged # NoStaged
    /\ \E commits \in BOOLEAN :
        IF commits
        THEN pColls' = [pColls EXCEPT ![pStaged.branch] = pStaged.colls]
        ELSE UNCHANGED pColls
    /\ pStaged' = NoStaged
    /\ pLast' = NoLast
    /\ UNCHANGED <<pCounter, pDbs, pRows, pMeta, pIdx>>
    /\ UNCHANGED otherThanProj


(***************************************************************************)
(* The schema versions of one collection of one database.  A request runs  *)
(* in a transaction of its own: what Tenant.createCollection writes to the *)
(* dictionary and the schema store is in the transaction until the commit  *)
(* and is gone after a rollback.  The dictionary and the schema store are  *)
(* not among the sources: CreateIndex takes the next id of the counter and *)
(* returns DuplicateKey for an active name; Put, Get, GetLatest and Delete *)
(* are as the tests of the schema store and section 4.3 have them.         *)
(***************************************************************************)
\* the indexes a schema may declare, in the order GetIndexes() lists them
SIndexes == <<"pkey", "ix">>
SIndexNames == Range(SIndexes)

\* a schema: its fields (wider with a higher lvl) and the indexes it declares
SSchemas == [lvl : 1..MaxLvl, idx : {{"pkey"}, {"pkey", "ix"}}]

\* no schema bytes
EmptySchema == [lvl |-> 0, idx |-> {}]

NoIds == [n \in SIndexNames |-> InvalidId]

\* no collection holder under the name in database.collections
NoHolder == [ver |-> 0, sch |-> EmptySchema, ids |-> NoIds]

\* the versions the schema store holds
Versions(store) == {e.ver : e \in store}

\* SchemaSubspace.Put(ctx, tx, ns, db, coll, schema, revision): the error
SchemaPutError(store, sch, revision) ==
    IF revision <= 0 THEN "InvalidArgument: invalid schema version"
    ELSE IF sch = EmptySchema THEN "InvalidArgument: empty schema"
    ELSE IF revision \in Versions(store) THEN "DuplicateKey"
    ELSE "OK"

\* a Put that stores whatever it is given
SchemaPutUnchecked(store, sch, revision) ==
    store \cup {[ver |-> revision, sch |-> sch]}

\* SchemaSubspace.Put: the store afterwards
SchemaPut(store, sch, revision) ==
    IF SchemaPutError(store, sch, revision) = "OK"
    THEN store \cup {[ver |-> revision, sch |-> sch]}
    ELSE store

RECURSIVE SchemaAscending(_)
SchemaAscending(store) ==
    IF store = {} THEN <<>>
    ELSE LET e == CHOOSE x \in store : \A y \in store : x.ver <= y.ver
         IN  <<e>> \o SchemaAscending(store \ {e})

RECURSIVE SchemaDescending(_)
SchemaDescending(store) ==
    IF store = {} THEN <<>>
    ELSE LET e == CHOOSE x \in store : \A y \in store : x.ver >= y.ver
         IN  <<e>> \o SchemaDescending(store \ {e})

\* SchemaSubspace.Get: every version stored, ascending
SchemaGet(store) == SchemaAscending(store)

\* SchemaSubspace.GetLatest: the entry of the highest version
SchemaGetLatest(store) ==
    IF store = {} THEN [ver |-> 0, sch |-> EmptySchema]
    ELSE SchemaGet(store)[Cardinality(store)]

\* SchemaSubspace.Delete: every version of the collection goes
SchemaDelete(store) == {}

\* isSchemaEq(c.collection.Schema, schFactory.Schema)
isSchemaEq(s1, s2) == s1 = s2

\* the indexes of the schema, in order
SchemaIndexes(sch) == SelectSeq(SIndexes, LAMBDA n : n \in sch.idx)

\* the loop of CreateIndex over the indexes given: each takes the next id of
\* the dictionary in the transaction and is added to the holder's
\* idxNameToId; the loop ends at the first error
RECURSIVE createIndexes(_, _, _)
createIndexes(c, tx, names) ==
    IF names = <<>> THEN [err |-> "OK", coll |-> c, tx |-> tx]
    ELSE LET n == Head(names)
             id == tx.counter + 1
         IN  IF tx.dict.ids[n] # InvalidId
             THEN [err |-> "DuplicateKey", coll |-> c, tx |-> tx]
             ELSE createIndexes([c EXCEPT !.ids[n] = id],
                                [tx EXCEPT !.dict.ids[n] = id, !.counter = id],
                                Tail(names))

\* Tenant.updateCollection on the holder c of the database object given: the
\* error, the holder the database object has afterwards, and the
\* transaction's view of the dictionary and the schema store
updateCollection(c, tx, sch) ==
    LET newIndexes == SelectSeq(SchemaIndexes(sch), LAMBDA n : c.ids[n] = InvalidId)
        r == createIndexes(c, tx, newIndexes)
        schRevision == c.ver + 1
        put == SchemaPutError(r.tx.store, sch, schRevision)
    IN  IF r.err # "OK" THEN r
        ELSE IF ApplySchemaRulesFails(c.sch, sch.lvl)
        THEN [err |-> "InvalidArgument", coll |-> r.coll, tx |-> r.tx]
        ELSE IF put # "OK" THEN [err |-> put, coll |-> r.coll, tx |-> r.tx]
        ELSE [err |-> "OK",
              coll |-> [ver |-> schRevision, sch |-> sch, ids |-> r.coll.ids],
              tx |-> [r.tx EXCEPT !.store = SchemaPut(r.tx.store, sch, schRevision)]]

\* Tenant.createCollection on the database object whose entry for the name is c
createCollection(c, tx, sch) ==
    IF c # NoHolder
    THEN IF isSchemaEq(c.sch, sch) THEN [err |-> "OK", coll |-> c, tx |-> tx]
         ELSE updateCollection(c, tx, sch)
    ELSE IF tx.dict.coll # InvalidId
    THEN [err |-> "DuplicateKey", coll |-> c, tx |-> tx]
    ELSE LET tx1 == [tx EXCEPT !.dict.coll = 1]
             r == createIndexes(NoHolder, tx1, SchemaIndexes(sch))
             put == SchemaPutError(r.tx.store, sch, baseSchemaVersion)
         IN  IF r.err # "OK" THEN [err |-> r.err, coll |-> c, tx |-> r.tx]
             ELSE IF put # "OK" THEN [err |-> put, coll |-> c, tx |-> r.tx]
             ELSE [err |-> "OK",
                   coll |-> [ver |-> baseSchemaVersion, sch |-> sch, ids |-> r.coll.ids],
                   tx |-> [r.tx EXCEPT !.store = SchemaPut(r.tx.store, sch, baseSchemaVersion)]]

\* what a transaction that starts now reads
SchemaTx == [store |-> sStore, dict |-> sDict, counter |-> sCounter]

NoSchemaOp == [op |-> "none", err |-> "OK", ver |-> 0, sch |-> EmptySchema,
               got |-> <<>>]

SchemaInit ==
    /\ sStore = {}
    /\ sDict = [coll |-> InvalidId, ids |-> NoIds]
    /\ sCounter = 0
    /\ sCache = NoHolder
    /\ sLast = NoSchemaOp

SchemaIdle == SchemaInit

\* the transaction commits: its view is what is stored
SchemaCommit(tx) ==
    /\ sStore' = tx.store
    /\ sDict' = tx.dict
    /\ sCounter' = tx.counter

\* the transaction is rolled back
SchemaRollback == UNCHANGED <<sStore, sDict, sCounter>>

\* db.Clone() and StageDatabase(db): the request works on a copy of the
\* holder, and the tenant cache's holder becomes the copy by a commit alone
StagedHolder(c, staged, committed) == IF committed THEN staged ELSE c

\* CollectionQueryRunner.Run, createOrUpdateReq, in an implicit transaction:
\* the database is cloned and staged, Tenant.CreateCollection works on the
\* clone; the session commits when Run returns no error and rolls back
\* otherwise
CreateOrUpdateCollection ==
    /\ \E sch \in SSchemas, commits \in BOOLEAN :
        LET r == createCollection(sCache, SchemaTx, sch)
            err == IF r.err # "OK" THEN CreateRunError(r.err)
                   ELSE IF commits THEN "OK" ELSE "Conflict"
        IN  /\ r.coll.ver <= MaxRevision
            /\ sLast' = [NoSchemaOp EXCEPT !.op = "CreateOrUpdateCollection",
                                           !.err = err, !.sch = sch]
            /\ sCache' = StagedHolder(sCache, r.coll, err = "OK")
            /\ IF err = "OK" THEN SchemaCommit(r.tx) ELSE SchemaRollback
    /\ UNCHANGED otherThanSchema

\* ImportQueryRunner.evolveSchema: Tenant.CreateCollection in a transaction of
\* its own, on the database that getDatabase returns, which is the tenant
\* cache's as nothing is staged in the transaction
SchemaEvolve ==
    /\ \E sch \in SSchemas, commits \in BOOLEAN :
        LET r == createCollection(sCache, SchemaTx, sch)
            err == IF r.err # "OK" THEN CreateRunError(r.err)
                   ELSE IF commits THEN "OK" ELSE "Conflict"
        IN  /\ r.coll.ver <= MaxRevision
            /\ sLast' = [NoSchemaOp EXCEPT !.op = "evolveSchema",
                                           !.err = err, !.sch = sch]
            /\ sCache' = r.coll
            /\ IF err = "OK" THEN SchemaCommit(r.tx) ELSE SchemaRollback
    /\ UNCHANGED otherThanSchema

\* Tenant.reload: the holder is rebuilt from the dictionary and from the
\* schemas stored, with the latest of them as the collection's
ReloadedHolder ==
    IF sDict.coll = InvalidId THEN NoHolder
    ELSE [ver |-> SchemaGetLatest(sStore).ver, sch |-> SchemaGetLatest(sStore).sch,
          ids |-> sDict.ids]

SchemaReload ==
    /\ sCache # ReloadedHolder
    /\ sCache' = ReloadedHolder
    /\ sLast' = [NoSchemaOp EXCEPT !.op = "reload"]
    /\ UNCHANGED <<sStore, sDict, sCounter>>
    /\ UNCHANGED otherThanSchema

\* the schema store on its own, as its tests drive it: Put of any schema
\* bytes under any version
StorePut ==
    /\ \E sch \in SSchemas \cup {EmptySchema}, revision \in 0..MaxRevision :
        /\ sLast' = [NoSchemaOp EXCEPT !.op = "Put", !.sch = sch, !.ver = revision,
                                       !.err = SchemaPutError(sStore, sch, revision)]
        /\ sStore' = SchemaPut(sStore, sch, revision)
    /\ UNCHANGED <<sDict, sCounter, sCache>>
    /\ UNCHANGED otherThanSchema

\* SchemaSubspace.Get
StoreGet ==
    /\ sLast' = [NoSchemaOp EXCEPT !.op = "Get", !.got = SchemaGet(sStore)]
    /\ UNCHANGED <<sStore, sDict, sCounter, sCache>>
    /\ UNCHANGED otherThanSchema

\* SchemaSubspace.GetLatest
StoreGetLatest ==
    /\ sLast' = [NoSchemaOp EXCEPT !.op = "GetLatest",
                                   !.ver = SchemaGetLatest(sStore).ver,
                                   !.sch = SchemaGetLatest(sStore).sch]
    /\ UNCHANGED <<sStore, sDict, sCounter, sCache>>
    /\ UNCHANGED otherThanSchema

\* SchemaSubspace.Delete
StoreDelete ==
    /\ sStore # {}
    /\ sStore' = SchemaDelete(sStore)
    /\ sLast' = [NoSchemaOp EXCEPT !.op = "Delete"]
    /\ UNCHANGED <<sDict, sCounter, sCache>>
    /\ UNCHANGED otherThanSchema

(***************************************************************************)
(* Namespaces: the reserved subspace of the dictionary and the tenant      *)
(* manager's maps.  The reserved subspace is not among the sources; its    *)
(* reserveNamespace is as its test and section 3 of the specification have *)
(* it: an id assigned to another namespace, or a name already reserved, is *)
(* refused.                                                                *)
(***************************************************************************)
StrIds == {"a", "b"}
NsIds == 1..MaxNsId
NoNs == 0
NoTenant == [id |-> NoNs, obj |-> 0]
NoNsCall == [op |-> "none", str |-> "", id |-> NoNs, err |-> "OK", obj |-> 0,
             tx |-> FALSE]

\* reservedSubspace.reserveNamespace(ctx, tx, strId, metadata): the error
reserveNamespaceError(reserved, str, id) ==
    IF \E s \in StrIds \ {str} : reserved[s] = id THEN "AlreadyExists"
    ELSE IF reserved[str] # NoNs THEN "AlreadyExists"
    ELSE "OK"

\* the reservation afterwards
reserveNamespace(reserved, str, id) ==
    IF reserveNamespaceError(reserved, str, id) = "OK"
    THEN [reserved EXCEPT ![str] = id] ELSE reserved

\* versionH.Increment in the transaction
Increment(version) == version + 1

\* the tenant is put in the cache whatever the commit returned
CacheUncommitted(tenants, str, tenant, committed) == [tenants EXCEPT ![str] = tenant]

\* the deferred function of CreateOrGetTenant and GetTenant: the tenant is put
\* in m.tenants when the commit succeeded
CacheOnCommit(tenants, str, tenant, committed) ==
    IF committed THEN [tenants EXCEPT ![str] = tenant] ELSE tenants

\* TenantManager.createOrGetTenantInternal: the error, the namespace id of the
\* Tenant it returns, and the transaction's reservation and version
createOrGetTenantInternal(str, id) ==
    IF nReserved[str] # NoNs
    THEN [err |-> "OK", id |-> id, reserved |-> nReserved, version |-> nVersion]
    ELSE LET e == reserveNamespaceError(nReserved, str, id)
         IN  [err |-> e, id |-> id,
              reserved |-> reserveNamespace(nReserved, str, id),
              version |-> Increment(nVersion)]

NsInit ==
    /\ nReserved = [s \in StrIds |-> NoNs]
    /\ nVersion = 0
    /\ nTenants = [s \in StrIds |-> NoTenant]
    /\ nIdToTenant = [i \in NsIds |-> ""]
    /\ nObjs = 0
    /\ nLast = NoNsCall

NsIdle == NsInit

\* TenantManager.CreateOrGetTenant(ctx, namespace)
NsCreateOrGetTenant ==
    /\ \E str \in StrIds, id \in NsIds, commits \in BOOLEAN :
        LET call == [NoNsCall EXCEPT !.op = "CreateOrGetTenant", !.str = str, !.id = id]
        IN  IF nTenants[str] # NoTenant
            THEN /\ nLast' = IF nTenants[str].id = id
                             THEN [call EXCEPT !.obj = nTenants[str].obj]
                             ELSE [call EXCEPT !.err = "InvalidArgument"]
                 /\ UNCHANGED <<nReserved, nVersion, nTenants, nIdToTenant, nObjs>>
            ELSE LET r == createOrGetTenantInternal(str, id)
                     err == IF r.err # "OK" THEN r.err
                            ELSE IF commits THEN "OK" ELSE "Conflict"
                     tenant == [id |-> r.id, obj |-> nObjs + 1]
                 IN  /\ nLast' = [call EXCEPT !.err = err, !.tx = TRUE,
                                              !.obj = IF err = "OK" THEN tenant.obj ELSE 0]
                     /\ nTenants' = CacheOnCommit(nTenants, str, tenant, err = "OK")
                     /\ IF err = "OK"
                        THEN /\ nReserved' = r.reserved
                             /\ nVersion' = r.version
                             /\ nIdToTenant' = [nIdToTenant EXCEPT ![r.id] = str]
                             /\ nObjs' = nObjs + 1
                        ELSE UNCHANGED <<nReserved, nVersion, nIdToTenant, nObjs>>
    /\ UNCHANGED otherThanNs

\* TenantManager.CreateTenant(ctx, tx, namespace), in a transaction that the
\* caller then commits or rolls back
NsCreateTenant ==
    /\ \E str \in StrIds, id \in NsIds, commits \in BOOLEAN :
        LET call == [NoNsCall EXCEPT !.op = "CreateTenant", !.str = str, !.id = id,
                                     !.tx = TRUE]
            e == IF nReserved[str] # NoNs THEN "AlreadyExists"
                 ELSE IF \E s \in StrIds : nReserved[s] = id THEN "AlreadyExists"
                 ELSE reserveNamespaceError(nReserved, str, id)
            err == IF e # "OK" THEN e ELSE IF commits THEN "OK" ELSE "Conflict"
        IN  /\ nLast' = [call EXCEPT !.err = err]
            /\ IF err = "OK"
               THEN /\ nReserved' = reserveNamespace(nReserved, str, id)
                    /\ nVersion' = Increment(nVersion)
               ELSE UNCHANGED <<nReserved, nVersion>>
    /\ UNCHANGED <<nTenants, nIdToTenant, nObjs>>
    /\ UNCHANGED otherThanNs

\* MetadataDictionary.ReserveNamespace(ctx, tx, strId, metadata) in a
\* transaction of its own
NsReserveNamespace ==
    /\ \E str \in StrIds, id \in NsIds, commits \in BOOLEAN :
        LET e == reserveNamespaceError(nReserved, str, id)
            err == IF e # "OK" THEN e ELSE IF commits THEN "OK" ELSE "Conflict"
        IN  /\ nLast' = [NoNsCall EXCEPT !.op = "ReserveNamespace", !.str = str,
                                         !.id = id, !.tx = TRUE, !.err = err]
            /\ nReserved' = IF err = "OK" THEN reserveNamespace(nReserved, str, id)
                            ELSE nReserved
    /\ UNCHANGED <<nVersion, nTenants, nIdToTenant, nObjs>>
    /\ UNCHANGED otherThanNs

\* TenantManager.GetTenant(ctx, namespaceName)
NsGetTenant ==
    /\ \E str \in StrIds, commits \in BOOLEAN :
        LET call == [NoNsCall EXCEPT !.op = "GetTenant", !.str = str]
        IN  IF nTenants[str] # NoTenant
            THEN /\ nLast' = [call EXCEPT !.id = nTenants[str].id, !.obj = nTenants[str].obj]
                 /\ UNCHANGED <<nTenants, nIdToTenant, nObjs>>
            ELSE LET err == IF nReserved[str] = NoNs THEN "NotFound"
                            ELSE IF commits THEN "OK" ELSE "Conflict"
                     tenant == [id |-> nReserved[str], obj |-> nObjs + 1]
                 IN  /\ nLast' = [call EXCEPT !.err = err, !.tx = TRUE,
                                              !.id = IF err = "OK" THEN tenant.id ELSE NoNs,
                                              !.obj = IF err = "OK" THEN tenant.obj ELSE 0]
                     /\ nTenants' = CacheOnCommit(nTenants, str, tenant, err = "OK")
                     /\ IF err = "OK"
                        THEN /\ nIdToTenant' = [nIdToTenant EXCEPT ![tenant.id] = str]
                             /\ nObjs' = nObjs + 1
                        ELSE UNCHANGED <<nIdToTenant, nObjs>>
    /\ UNCHANGED <<nReserved, nVersion>>
    /\ UNCHANGED otherThanNs

(***************************************************************************)
(* The dictionary's encoding subspace.  The dictionary is not among the    *)
(* sources, its tests are: the model follows them and section 4.2 of the   *)
(* specification.  A Create reads the counter in its transaction, writes   *)
(* counter + 1 and the name's record; a Drop rewrites the record as        *)
(* dropped and keeps its id; a Get returns InvalidId for a name that is    *)
(* dropped or missing.  A transaction reads the store as of its start, and *)
(* its commit fails when a transaction committed since has written a       *)
(* record or the counter that it has read.                                 *)
(***************************************************************************)
DictTxs == 1..MaxDictTx
DictKinds == {"database", "collection"}
NoRecord == [id |-> InvalidId, state |-> "missing"]
NoDictOp == [op |-> "none", tx |-> 0, kind |-> "", id |-> InvalidId, err |-> "OK"]
NoDictView == [recs |-> [k \in DictKinds |-> NoRecord], counter |-> 0,
               bumped |-> FALSE]

\* the id of the counter itself, handed out again
SameDictId(counter) == counter

\* the id a Create takes, given the counter it has read
NextDictId(counter) == counter + 1

\* Create{Database,Collection,Index}(ctx, tx, name, parents...): the error, the
\* id returned and the transaction's view afterwards
DictCreate(view, kind) ==
    IF view.recs[kind].state = "active"
    THEN [err |-> "DuplicateKey", id |-> InvalidId, view |-> view]
    ELSE LET id == NextDictId(view.counter)
         IN  [err |-> "OK", id |-> id,
              view |-> [recs |-> [view.recs EXCEPT ![kind] = [id |-> id, state |-> "active"]],
                        counter |-> id, bumped |-> TRUE]]

\* Drop{Database,Collection,Index}(ctx, tx, name, parents..., id): the record
\* is rewritten as dropped, its id kept
DictDrop(view, kind) ==
    [view EXCEPT !.recs[kind].state = "dropped"]

\* a Get that returns the id of the record whatever its state
DictGetAnyId(view, kind) == view.recs[kind].id

\* Get{Database,Collection,Index}Id(ctx, tx, name, parents...)
DictGetId(view, kind) ==
    IF view.recs[kind].state = "active" THEN view.recs[kind].id ELSE InvalidId

DictInit ==
    /\ kRecs = [k \in DictKinds |-> NoRecord]
    /\ kCounter = 0
    /\ kPc = [t \in DictTxs |-> "idle"]
    /\ kSnap = [t \in DictTxs |-> NoDictView]
    /\ kView = [t \in DictTxs |-> NoDictView]
    /\ kTouched = [t \in DictTxs |-> {}]
    /\ kNew = [t \in DictTxs |-> {}]
    /\ kOps = [t \in DictTxs |-> 0]
    /\ kAllocated = {}
    /\ kLast = NoDictOp

DictIdle == DictInit

\* tm.StartTx(ctx)
DictStartTx(t) ==
    /\ kPc[t] = "idle"
    /\ kPc' = [kPc EXCEPT ![t] = "open"]
    /\ kSnap' = [kSnap EXCEPT ![t] = [recs |-> kRecs, counter |-> kCounter, bumped |-> FALSE]]
    /\ kView' = [kView EXCEPT ![t] = [recs |-> kRecs, counter |-> kCounter, bumped |-> FALSE]]
    /\ kLast' = [NoDictOp EXCEPT !.op = "start", !.tx = t]
    /\ UNCHANGED <<kRecs, kCounter, kTouched, kNew, kOps, kAllocated>>
    /\ UNCHANGED otherThanDict

\* k.CreateDatabase / CreateCollection / CreateIndex in the transaction
DictCreateOp(t) ==
    /\ kPc[t] = "open"
    /\ kOps[t] < MaxDictOps
    /\ \E kind \in DictKinds :
        LET r == DictCreate(kView[t], kind)
        IN  /\ r.view.counter <= MaxDictId
            /\ kView' = [kView EXCEPT ![t] = r.view]
            /\ kTouched' = [kTouched EXCEPT ![t] = @ \cup {kind}]
            /\ kNew' = [kNew EXCEPT ![t] = IF r.err = "OK" THEN @ \cup {<<kind, r.id>>} ELSE @]
            /\ kLast' = [op |-> "create", tx |-> t, kind |-> kind, id |-> r.id, err |-> r.err]
    /\ kOps' = [kOps EXCEPT ![t] = @ + 1]
    /\ UNCHANGED <<kRecs, kCounter, kPc, kSnap, kAllocated>>
    /\ UNCHANGED otherThanDict

\* k.DropDatabase / DropCollection / DropIndex of a name that is active, with
\* the id it has
DictDropOp(t) ==
    /\ kPc[t] = "open"
    /\ kOps[t] < MaxDictOps
    /\ \E kind \in DictKinds :
        /\ kView[t].recs[kind].state = "active"
        /\ kView' = [kView EXCEPT ![t] = DictDrop(@, kind)]
        /\ kTouched' = [kTouched EXCEPT ![t] = @ \cup {kind}]
        /\ kLast' = [op |-> "drop", tx |-> t, kind |-> kind,
                     id |-> kView[t].recs[kind].id, err |-> "OK"]
    /\ kOps' = [kOps EXCEPT ![t] = @ + 1]
    /\ UNCHANGED <<kRecs, kCounter, kPc, kSnap, kNew, kAllocated>>
    /\ UNCHANGED otherThanDict

\* k.GetDatabaseId / GetCollectionId / GetIndexId in the transaction
DictGetOp(t) ==
    /\ kPc[t] = "open"
    /\ kOps[t] < MaxDictOps
    /\ \E kind \in DictKinds :
        /\ kTouched' = [kTouched EXCEPT ![t] = @ \cup {kind}]
        /\ kLast' = [op |-> "get", tx |-> t, kind |-> kind,
                     id |-> DictGetId(kView[t], kind), err |-> "OK"]
    /\ kOps' = [kOps EXCEPT ![t] = @ + 1]
    /\ UNCHANGED <<kRecs, kCounter, kPc, kSnap, kView, kNew, kAllocated>>
    /\ UNCHANGED otherThanDict

\* a transaction committed since the start of t has written what t has read
DictConflicts(t) ==
    \/ kView[t].bumped /\ kCounter # kSnap[t].counter
    \/ \E kind \in kTouched[t] : kRecs[kind] # kSnap[t].recs[kind]

DictTxEnds(t) ==
    /\ kPc' = [kPc EXCEPT ![t] = "idle"]
    /\ kSnap' = [kSnap EXCEPT ![t] = NoDictView]
    /\ kView' = [kView EXCEPT ![t] = NoDictView]
    /\ kTouched' = [kTouched EXCEPT ![t] = {}]
    /\ kNew' = [kNew EXCEPT ![t] = {}]
    /\ kOps' = [kOps EXCEPT ![t] = 0]

\* tx.Commit(ctx) succeeds
DictCommit(t) ==
    /\ kPc[t] = "open"
    /\ ~DictConflicts(t)
    /\ kRecs' = [kind \in DictKinds |->
                    IF kind \in kTouched[t] THEN kView[t].recs[kind] ELSE kRecs[kind]]
    /\ kCounter' = IF kView[t].bumped THEN kView[t].counter ELSE kCounter
    /\ kAllocated' = kAllocated \cup kNew[t]
    /\ kLast' = [NoDictOp EXCEPT !.op = "commit", !.tx = t]
    /\ DictTxEnds(t)
    /\ UNCHANGED otherThanDict

\* tx.Rollback(ctx), or a tx.Commit(ctx) that fails
DictRollback(t) ==
    /\ kPc[t] = "open"
    /\ kLast' = [NoDictOp EXCEPT !.op = "rollback", !.tx = t]
    /\ DictTxEnds(t)
    /\ UNCHANGED <<kRecs, kCounter, kAllocated>>
    /\ UNCHANGED otherThanDict

(***************************************************************************)
(* Packing of a row for the search store (PackSearchFields) and its        *)
(* inverse (UnpackSearchFields).  A JSON value is a record with a tag t:   *)
(* a string s, a number n, an array of strings a (a null element is        *)
(* NilItem), an object o (a map from ObjKeys to values), or no value at    *)
(* all.  A JSON map is a function from keys to values; a key of value      *)
(* JAbsent is not in the map.                                              *)
(***************************************************************************)
ObjKeys == {"x"}
NilItem == "nil"
JLeafAbsent == [t |-> "absent", s |-> "", n |-> 0, a |-> <<>>]
NoObj == [j \in ObjKeys |-> JLeafAbsent]
JAbsent == [t |-> "absent", s |-> "", n |-> 0, a |-> <<>>, o |-> NoObj]
JStr(s) == [JAbsent EXCEPT !.t = "str", !.s = s]
JNum(n) == [JAbsent EXCEPT !.t = "num", !.n = n]
JArr(a) == [JAbsent EXCEPT !.t = "arr", !.a = a]
JObj(o) == [JAbsent EXCEPT !.t = "obj", !.o = o]
JLeaf(v) == [t |-> v.t, s |-> v.s, n |-> v.n, a |-> v.a]
JTop(l) == [t |-> l.t, s |-> l.s, n |-> l.n, a |-> l.a, o |-> NoObj]

\* schema.SearchId and schema.ReservedFields
SearchId == "id"
IdToSearchKey == "_tigris_id"
ReservedCreatedAt == "_tigris_created_at"
ReservedUpdatedAt == "_tigris_updated_at"
SearchArrNullItem == "_tigris_null"
\* schema.ToSearchDateKey: the shadowed key of a date-time field
ToSearchDateKey(key) == IF key = "ts" THEN "_tigris_date_ts" ELSE "_tigris_date_other"

\* the collection of the model: user fields id, created_at, updated_at
\* (numbers), obj (an object with the number x), ts (a date-time), tags (an
\* array of strings)
UserKeys == {"id", "created_at", "updated_at", "obj", "ts", "tags"}
ReservedKeys == {IdToSearchKey, ReservedCreatedAt, ReservedUpdatedAt,
                 "_tigris_date_ts"}
TopKeys == UserKeys \cup ReservedKeys
\* the keys of a flattened document: key + ObjFlattenDelimiter + k
FlatKeys == (TopKeys \ {"obj"}) \cup {"obj.x"}
\* collection.QueryableFields, by f.Name(), with DataType and SearchType
QueryableFields == {"id", "created_at", "updated_at", "obj.x", "ts", "tags"}
IsDateTime(f) == f = "ts"
IsStringArray(f) == f = "tags"
\* f.ShouldPack(): dates, and non-scalar fields other than arrays of strings
ShouldPack(f) == IsDateTime(f)

\* key + schema.ObjFlattenDelimiter + k, and strings.Split of it
FlatKeyOf(key, k) == IF key = "obj" /\ k = "x" THEN "obj.x" ELSE "none"
SplitKey(fk) == IF fk = "obj.x" THEN <<"obj", "x">> ELSE <<fk>>

\* FlattenObjects: every leaf of the document under its dotted path; an
\* object contributes its leaves and nothing else
FlattenObjects(data) ==
    [fk \in FlatKeys |->
        LET keys == SplitKey(fk)
        IN  IF Len(keys) = 1
            THEN IF data[fk].t = "obj" THEN JAbsent ELSE data[fk]
            ELSE IF data[keys[1]].t = "obj"
                 THEN JTop(data[keys[1]].o[keys[2]])
                 ELSE JAbsent]

\* UnFlattenObjects: a dotted key makes the object of its first part
UnFlattenObjects(flat) ==
    [k \in TopKeys |->
        LET under == {fk \in FlatKeys :
                        /\ Len(SplitKey(fk)) = 2
                        /\ SplitKey(fk)[1] = k
                        /\ flat[fk].t # "absent"}
        IN  IF under # {}
            THEN JObj([j \in ObjKeys |->
                        IF FlatKeyOf(k, j) \in under
                        THEN JLeaf(flat[FlatKeyOf(k, j)])
                        ELSE JLeafAbsent])
            ELSE IF k \in FlatKeys THEN flat[k] ELSE JAbsent]

\* a Timestamp is seconds and nanoseconds; UnixNano and CreateNewTimestamp
NoTimestamp == [sec |-> -1, ns |-> 0]
UnixNano(ts) == ts.sec * 1000000000 + ts.ns
CreateNewTimestamp(nano) == [sec |-> nano \div 1000000000, ns |-> nano % 1000000000]
\* date.ToUnixNano of the date strings of the model
DateToUnixNano(dateStr) == IF dateStr = "d1" THEN 1000000001 ELSE 1000000002

\* the null elements of an array replaced by the marker, and back
MarkNulls(a) == [i \in DOMAIN a |-> IF a[i] = NilItem THEN SearchArrNullItem ELSE a[i]]
UnmarkNulls(a) == [i \in DOMAIN a |-> IF a[i] = SearchArrNullItem THEN NilItem ELSE a[i]]

\* PackSearchFields(data, collection, id)
PackSearchFields(doc, data, id) ==
    LET withId == IF doc[SearchId].t # "absent"
                  THEN [doc EXCEPT ![IdToSearchKey] = doc[SearchId]]
                  ELSE doc
        flat == FlattenObjects(withId)
        \* the loop over collection.QueryableFields
        packed == [fk \in FlatKeys |->
            IF \E f \in QueryableFields :
                   /\ ToSearchDateKey(f) = fk /\ ShouldPack(f) /\ IsDateTime(f)
                   /\ flat[f].t = "str"
            THEN LET f == CHOOSE f \in QueryableFields : ToSearchDateKey(f) = fk
                 IN  flat[f]
            ELSE IF fk \notin QueryableFields \/ flat[fk].t = "absent" THEN flat[fk]
            ELSE IF IsStringArray(fk) /\ flat[fk].t = "arr"
                 THEN JArr(MarkNulls(flat[fk].a))
            ELSE IF ShouldPack(fk) /\ IsDateTime(fk) /\ flat[fk].t = "str"
                 THEN JNum(DateToUnixNano(flat[fk].s))
            ELSE flat[fk]]
    IN  [packed EXCEPT
            ![SearchId] = JStr(id),
            ![ReservedCreatedAt] = JNum(UnixNano(data.created)),
            ![ReservedUpdatedAt] = IF data.updated # NoTimestamp
                                   THEN JNum(UnixNano(data.updated))
                                   ELSE @]

\* getInternalTS(doc, keyName)
getInternalTS(doc, keyName) ==
    IF doc[keyName].t = "num" THEN CreateNewTimestamp(doc[keyName].n) ELSE NoTimestamp

\* UnpackSearchFields(doc, collection): search key, metadata and document
UnpackSearchFields(doc) ==
    LET userCreatedAt == "created_at" \in QueryableFields
        userUpdatedAt == "updated_at" \in QueryableFields
        oldCreated == getInternalTS(doc, "created_at")
        doc1 == IF userCreatedAt THEN doc ELSE [doc EXCEPT !["created_at"] = JAbsent]
        newCreated == getInternalTS(doc1, ReservedCreatedAt)
        created == IF newCreated # NoTimestamp THEN newCreated ELSE oldCreated
        doc2 == IF newCreated # NoTimestamp
                THEN [doc1 EXCEPT ![ReservedCreatedAt] = JAbsent] ELSE doc1
        oldUpdated == getInternalTS(doc2, "updated_at")
        doc3 == IF userUpdatedAt THEN doc2 ELSE [doc2 EXCEPT !["updated_at"] = JAbsent]
        newUpdated == getInternalTS(doc3, ReservedUpdatedAt)
        updated == IF newUpdated # NoTimestamp THEN newUpdated ELSE oldUpdated
        doc4 == IF newUpdated # NoTimestamp
                THEN [doc3 EXCEPT ![ReservedUpdatedAt] = JAbsent] ELSE doc3
        \* the loop over collection.QueryableFields
        doc5 == [fk \in FlatKeys |->
            IF \E f \in QueryableFields :
                   ToSearchDateKey(f) = fk /\ ShouldPack(f) /\ IsDateTime(f)
                                           /\ doc4[f].t # "absent"
            THEN JAbsent
            ELSE IF fk \notin QueryableFields THEN doc4[fk]
            ELSE IF IsStringArray(fk) /\ doc4[fk].t = "arr"
                 THEN JArr(UnmarkNulls(doc4[fk].a))
            ELSE IF ShouldPack(fk) /\ IsDateTime(fk) /\ doc4[fk].t # "absent"
                 THEN doc4[ToSearchDateKey(fk)]
            ELSE doc4[fk]]
        nested == UnFlattenObjects(doc5)
        searchKey == nested[SearchId].s
        final == IF nested[IdToSearchKey].t # "absent"
                 THEN [nested EXCEPT ![SearchId] = nested[IdToSearchKey],
                                     ![IdToSearchKey] = JAbsent]
                 ELSE [nested EXCEPT ![SearchId] = JAbsent]
    IN  [key |-> searchKey,
         data |-> [created |-> created, updated |-> updated],
         doc |-> final]

\* the documents valid for the collection
TagArrays == {<<>>} \cup {<<a>> : a \in {"s", NilItem}}
                    \cup {<<a, b>> : a, b \in {"s", NilItem}}
PackDocs ==
    {[k \in TopKeys |->
        CASE k = "id" -> c.id
          [] k = "created_at" -> c.created_at
          [] k = "updated_at" -> c.updated_at
          [] k = "obj" -> c.obj
          [] k = "ts" -> c.ts
          [] k = "tags" -> c.tags
          [] OTHER -> JAbsent] :
     c \in [id : {JAbsent, JStr("u")},
            created_at : {JAbsent, JNum(7)},
            updated_at : {JAbsent, JNum(7)},
            obj : {JAbsent, JObj(NoObj), JObj([j \in ObjKeys |-> JLeaf(JNum(1))])},
            ts : {JAbsent, JStr("d1")},
            tags : {JAbsent} \cup {JArr(a) : a \in TagArrays}]}
\* the metadata of a row: created always, updated once the row was updated
PackTimestamps == {[sec |-> 1, ns |-> n] : n \in 0..1}
PackData == [created : PackTimestamps, updated : PackTimestamps \cup {NoTimestamp}]
NoPacked == [fk \in FlatKeys |-> JAbsent]
NoDocument == [k \in TopKeys |-> JAbsent]
NoUnpacked == [key |-> "", data |-> [created |-> NoTimestamp, updated |-> NoTimestamp],
               doc |-> NoDocument]

PackInit ==
    /\ fDoc \in PackDocs
    /\ fData \in PackData
    /\ fKey \in {"k1"}
    /\ fPacked = NoPacked
    /\ fOut = NoUnpacked
    /\ fPc = "new"

PackIdle ==
    /\ fDoc = NoDocument
    /\ fData = [created |-> NoTimestamp, updated |-> NoTimestamp]
    /\ fKey = ""
    /\ fPacked = NoPacked
    /\ fOut = NoUnpacked
    /\ fPc = "new"

\* the post-commit hook packs the row and hands it to the search store
PackRow ==
    /\ fPc = "new"
    /\ fPacked' = PackSearchFields(fDoc, fData, fKey)
    /\ fPc' = "packed"
    /\ UNCHANGED <<fDoc, fData, fKey, fOut>>
    /\ UNCHANGED otherThanPack

\* a search read unpacks the document the store returns
UnpackRow ==
    /\ fPc = "packed"
    /\ fOut' = UnpackSearchFields(fPacked)
    /\ fPc' = "unpacked"
    /\ UNCHANGED <<fDoc, fData, fKey, fPacked>>
    /\ UNCHANGED otherThanPack

(***************************************************************************)
(* SearchQueryRunner.ReadOnly: the loop that streams the hits of a search  *)
(* as pages.  The iterator returns the hits of the store in order: all of  *)
(* them (searchReader.Iterator) or those of one page                       *)
(* (searchReader.SinglePageIterator).                                      *)
(***************************************************************************)
defaultPerPage == 20
defaultPageNo == 1
NoTotalPages == -1
SearchRequests == [page : 0..MaxPage, size : 0..MaxPageSize]
NoSearchRequest == [page |-> 0, size |-> 0]

\* pageSize := int(runner.req.PageSize), defaultPerPage when 0
PageSizeOf(req) == IF req.size = 0 THEN defaultPerPage ELSE req.size
\* int32(math.Ceil(float64(found) / float64(pageSize)))
TotalPagesOf(found, pageSize) == (found + pageSize - 1) \div pageSize
\* a loop that breaks on any response without hits past the requested page
PastRequestedPage(pageNo, page) == pageNo > page
\* the condition under which the loop breaks on a response without hits
NoMorePages(pageNo, page) == pageNo > defaultPageNo /\ pageNo > page
\* the api.SearchResponse of the current iteration
SearchResponse ==
    [hits |-> qHits,
     facets |-> "facets",
     found |-> qFound,
     totalPages |-> IF qTotalPages = NoTotalPages
                    THEN TotalPagesOf(qFound, PageSizeOf(qReq))
                    ELSE qTotalPages,
     page |-> qPageNo,
     size |-> PageSizeOf(qReq)]

SearchInit ==
    /\ qFound \in 0..MaxHits
    /\ qReq = NoSearchRequest
    /\ qPc = "idle"
    /\ qFrom = 0
    /\ qUntil = 0
    /\ qHits = 0
    /\ qPageNo = 0
    /\ qTotalPages = NoTotalPages
    /\ qInterrupted = FALSE
    /\ qSent = <<>>
    /\ qResult = "none"

SearchIdle ==
    /\ qFound = 0
    /\ qReq = NoSearchRequest
    /\ qPc = "idle"
    /\ qFrom = 0
    /\ qUntil = 0
    /\ qHits = 0
    /\ qPageNo = 0
    /\ qTotalPages = NoTotalPages
    /\ qInterrupted = FALSE
    /\ qSent = <<>>
    /\ qResult = "none"

\* ReadOnly up to the loop: the iterator and pageNo
SearchStart(req) ==
    /\ qPc = "idle"
    /\ qReq' = req
    /\ qPc' = "run"
    /\ IF req.page # 0
       THEN /\ qFrom' = Min({(req.page - 1) * PageSizeOf(req), qFound})
            /\ qUntil' = Min({req.page * PageSizeOf(req), qFound})
       ELSE /\ qFrom' = 0
            /\ qUntil' = qFound
    /\ qPageNo' = IF req.page > 0 THEN req.page ELSE defaultPageNo
    /\ UNCHANGED <<qFound, qHits, qTotalPages, qInterrupted, qSent, qResult>>
    /\ UNCHANGED otherThanSearch

\* iterator.Next(&row) returns a hit, which is appended to resp.Hits
SearchNext ==
    /\ qPc = "run"
    /\ ~qInterrupted
    /\ qHits < PageSizeOf(qReq)
    /\ qFrom < qUntil
    /\ qFrom' = qFrom + 1
    /\ qHits' = qHits + 1
    /\ UNCHANGED <<qFound, qReq, qPc, qUntil, qPageNo, qTotalPages, qInterrupted,
                   qSent, qResult>>
    /\ UNCHANGED otherThanSearch

\* the store fails under iterator.Next, which returns false from then on
SearchInterrupt ==
    /\ qPc = "run"
    /\ ~qInterrupted
    /\ qHits < PageSizeOf(qReq)
    /\ qInterrupted' = TRUE
    /\ UNCHANGED <<qFound, qReq, qPc, qFrom, qUntil, qHits, qPageNo, qTotalPages,
                   qSent, qResult>>
    /\ UNCHANGED otherThanSearch

\* the rest of one iteration of the loop, after the hits of the page were
\* collected: metadata, the checks on a page without hits, Send, pageNo++
SearchEndPage(sendFails) ==
    /\ qPc = "run"
    /\ qHits = PageSizeOf(qReq) \/ qFrom = qUntil \/ qInterrupted
    /\ qTotalPages' = SearchResponse.totalPages
    /\ IF qHits = 0 /\ qInterrupted
       THEN /\ qPc' = "done"
            /\ qResult' = "error"
            /\ UNCHANGED <<qSent, qPageNo, qHits>>
       ELSE IF qHits = 0 /\ NoMorePages(qPageNo, qReq.page)
       THEN /\ qPc' = "done"
            /\ qResult' = "ok"
            /\ UNCHANGED <<qSent, qPageNo, qHits>>
       ELSE IF sendFails
       THEN /\ qPc' = "done"
            /\ qResult' = "error"
            /\ UNCHANGED <<qSent, qPageNo, qHits>>
       ELSE /\ qSent' = Append(qSent, SearchResponse)
            /\ qPageNo' = qPageNo + 1
            /\ qHits' = 0
            /\ UNCHANGED <<qPc, qResult>>
    /\ UNCHANGED <<qFound, qReq, qFrom, qUntil, qInterrupted>>
    /\ UNCHANGED otherThanSearch

(***************************************************************************)
(* Tenant.Reload called by several workers at once on one cached tenant.   *)
(* Version 1 is the empty tenant; the commit that made version n created   *)
(* the project (main database) n.  tenant.reload runs under the tenant's   *)
(* write lock and is one step; it reads through the caller's transaction,  *)
(* which sees the store as of the version the call carries.                *)
(***************************************************************************)
\* the databases a transaction that read version v finds in the dictionary
StoredAt(v) == 2..v
EmptyMaps == [projects |-> {}, dbs |-> {}]
NoReloadReturn == [w |-> 0, version |-> NilVersion, versionBefore |-> NilVersion,
                   reloaded |-> FALSE, waited |-> "no", changed |-> FALSE,
                   err |-> FALSE]
\* where a run of tenant.reload fails
ReloadFailures == {"none", "GetDatabases", "reloadDatabase", "reloadSearch"}

\* a check under the lock that lets every caller through
neverRetrogressed(version, cached) == FALSE
\* Tenant.Reload under the lock: bytes.Compare(version, tenant.version) < 1
versionRetrogressed(version, cached) == version <= cached
\* Tenant.shouldReload: bytes.Compare(currentVersion, tenant.version) > 0
staleVersion(currentVersion, cached) == currentVersion > cached

\* Tenant.reload(ctx, tx, currentVersion, indexesInSearchStore): the maps
\* are reset, then filled from the dictionary; loaded are the databases
\* that reloadDatabase had returned when one of them failed
reloadMaps(maps, version, currentVersion, failure, loaded) ==
    CASE failure = "GetDatabases" ->
            [maps |-> EmptyMaps, version |-> version, err |-> TRUE]
      [] failure = "reloadDatabase" ->
            [maps |-> [projects |-> StoredAt(currentVersion), dbs |-> loaded],
             version |-> version, err |-> TRUE]
      [] failure = "reloadSearch" ->
            [maps |-> [projects |-> StoredAt(currentVersion),
                       dbs |-> StoredAt(currentVersion)],
             version |-> version, err |-> TRUE]
      [] OTHER ->
            [maps |-> [projects |-> StoredAt(currentVersion),
                       dbs |-> StoredAt(currentVersion)],
             version |-> currentVersion, err |-> FALSE]

ReloadInit ==
    /\ lGlobal = 1
    /\ lVersion = 1
    /\ lCache = EmptyMaps
    /\ lLock = 0
    /\ lPc = [w \in Workers |-> "idle"]
    /\ lArg = [w \in Workers |-> NilVersion]
    /\ lWaited = [w \in Workers |-> "no"]
    /\ lLast = NoReloadReturn

ReloadIdle == ReloadInit

\* the commit of a transaction that created a project (on any server)
ReloadDDLCommit ==
    /\ lGlobal < MaxReloadVer
    /\ lGlobal' = lGlobal + 1
    /\ UNCHANGED <<lVersion, lCache, lLock, lPc, lArg, lWaited, lLast>>
    /\ UNCHANGED otherThanReload

\* Tenant.Reload(ctx, tx, version) up to tenant.Lock(): shouldReload under
\* the read lock; the call returns nil when the version is not newer
ReloadCalled(w) ==
    /\ lPc[w] = "idle"
    /\ lLock = 0
    /\ \E version \in 1..lGlobal :
        /\ lArg' = [lArg EXCEPT ![w] = version]
        /\ IF staleVersion(version, lVersion)
           THEN /\ lPc' = [lPc EXCEPT ![w] = "wait"]
                /\ UNCHANGED lLast
           ELSE /\ lLast' = [NoReloadReturn EXCEPT !.w = w, !.version = version,
                                                   !.versionBefore = lVersion]
                /\ UNCHANGED lPc
    /\ UNCHANGED <<lGlobal, lVersion, lCache, lLock, lWaited>>
    /\ UNCHANGED otherThanReload

\* tenant.Lock() returns
ReloadLocks(w) ==
    /\ lPc[w] = "wait"
    /\ lLock = 0
    /\ lLock' = w
    /\ lPc' = [lPc EXCEPT ![w] = "locked"]
    /\ UNCHANGED <<lGlobal, lVersion, lCache, lArg, lWaited, lLast>>
    /\ UNCHANGED otherThanReload

\* what the callers waiting for the lock have seen once w has run
\* tenant.reload for its version
SeenBy(w, ok) ==
    [o \in Workers |->
        IF o # w /\ lPc[o] = "wait" /\ lArg[o] = lArg[w]
        THEN (IF ok \/ lWaited[o] = "ok" THEN "ok" ELSE "failed")
        ELSE IF o = w THEN "no" ELSE lWaited[o]]

\* Tenant.Reload under the lock: the second check of the version, then
\* searchStore.AllCollections and tenant.reload, then the deferred Unlock
ReloadLocked(w) ==
    /\ lPc[w] = "locked"
    /\ \E allCollectionsFails \in BOOLEAN, failure \in ReloadFailures,
          loaded \in SUBSET StoredAt(lArg[w]) :
        /\ failure = "reloadDatabase" => loaded # StoredAt(lArg[w])
        /\ failure # "reloadDatabase" => loaded = {}
        /\ LET r == reloadMaps(lCache, lVersion, lArg[w], failure, loaded)
               returns == [NoReloadReturn EXCEPT !.w = w, !.version = lArg[w],
                                                 !.versionBefore = lVersion,
                                                 !.waited = lWaited[w]]
           IN
           IF versionRetrogressed(lArg[w], lVersion)
           THEN /\ lLast' = returns
                /\ lWaited' = [lWaited EXCEPT ![w] = "no"]
                /\ UNCHANGED <<lVersion, lCache>>
           ELSE IF allCollectionsFails
           THEN /\ lLast' = [returns EXCEPT !.err = TRUE]
                /\ lWaited' = [lWaited EXCEPT ![w] = "no"]
                /\ UNCHANGED <<lVersion, lCache>>
           ELSE /\ lCache' = r.maps
                /\ lVersion' = r.version
                /\ lWaited' = SeenBy(w, ~r.err)
                /\ lLast' = [returns EXCEPT !.reloaded = TRUE, !.err = r.err,
                                            !.changed = (r.maps # lCache
                                                         \/ r.version # lVersion)]
    /\ lLock' = 0
    /\ lPc' = [lPc EXCEPT ![w] = "idle"]
    /\ UNCHANGED <<lGlobal, lArg>>
    /\ UNCHANGED otherThanReload

(***************************************************************************)
(* CreateProject for one project name by several workers, each with its    *)
(* own cached tenant.  A request runs ProjectQueryRunner.Run in a          *)
(* transaction of its own; a CREATED answer commits it, an error rolls it  *)
(* back.                                                                   *)
(***************************************************************************)
NoMetadata == [by |-> 0, id |-> InvalidId]
NoProjectTx == [pc |-> "idle", db |-> InvalidId, meta |-> FALSE, status |-> "none"]
NoProjectResponse == [w |-> 0, cached |-> FALSE, duplicate |-> FALSE,
                      status |-> "none", meta |-> FALSE]

\* metaStore.CreateDatabase(ctx, tx, projName, namespaceId): a new id, or
\* DuplicateKey when the name has an active entry
metaStoreCreateDatabase(dictId, counter) ==
    IF dictId # InvalidId
    THEN [id |-> InvalidId, err |-> "DuplicateKey"]
    ELSE [id |-> counter + 1, err |-> "nil"]

\* Tenant.createProject(ctx, tx, projName, projMetadata): what it returns
\* (exists, err) and what it has written in the transaction (db, meta)
createProject(cached, dictId, counter, hasMetadata, insertFails) ==
    IF cached
    THEN [exists |-> TRUE, err |-> "nil", db |-> InvalidId, meta |-> FALSE]
    ELSE LET created == metaStoreCreateDatabase(dictId, counter) IN
         IF hasMetadata
         THEN IF insertFails
              THEN [exists |-> FALSE, err |-> "Internal",
                    db |-> created.id, meta |-> FALSE]
              ELSE [exists |-> FALSE, err |-> "nil",
                    db |-> created.id, meta |-> TRUE]
         ELSE [exists |-> FALSE, err |-> created.err,
               db |-> created.id, meta |-> FALSE]

\* ProjectQueryRunner.Run, runner.create: the answer for (exist, err)
ProjectCreateStatus(exist, err) ==
    IF exist \/ err = "DuplicateKey" THEN "AlreadyExists"
    ELSE IF err # "nil" THEN err
    ELSE "Created"

CreateInit ==
    /\ cDict = InvalidId
    /\ cCounter = 0
    /\ cMetaStore = NoMetadata
    /\ cProjects = [w \in Workers |-> FALSE]
    /\ cTx = [w \in Workers |-> NoProjectTx]
    /\ cLast = NoProjectResponse
    /\ cCreated = {}

CreateIdle == CreateInit

\* ProjectQueryRunner.Run for a CreateProject request of worker w
ProjectRun(w) ==
    /\ cTx[w].pc = "idle"
    /\ \E metadataFails \in BOOLEAN, insertFails \in BOOLEAN :
        LET r == createProject(cProjects[w], cDict, cCounter, TRUE, insertFails)
            status == IF metadataFails THEN "Internal"
                      ELSE ProjectCreateStatus(r.exists, r.err)
        IN
        /\ cTx' = [cTx EXCEPT ![w] =
                      IF metadataFails
                      THEN [NoProjectTx EXCEPT !.pc = "ran", !.status = status]
                      ELSE [pc |-> "ran", db |-> r.db, meta |-> r.meta,
                            status |-> status]]
        /\ cLast' = [w |-> w, cached |-> cProjects[w],
                     duplicate |-> (~cProjects[w] /\ cDict # InvalidId),
                     status |-> status,
                     meta |-> (~metadataFails /\ r.meta)]
    /\ UNCHANGED <<cDict, cCounter, cMetaStore, cProjects, cCreated>>
    /\ UNCHANGED otherThanCreateProject

\* the session ends the transaction: commit after CREATED (it fails with a
\* conflict when another transaction committed the name meanwhile),
\* rollback after an error
ProjectTxEnds(w) ==
    /\ cTx[w].pc = "ran"
    /\ IF cTx[w].status = "Created" /\ ~(cTx[w].db # InvalidId /\ cDict # InvalidId)
       THEN /\ cDict' = IF cTx[w].db # InvalidId THEN cTx[w].db ELSE cDict
            /\ cCounter' = IF cTx[w].db # InvalidId THEN cTx[w].db ELSE cCounter
            /\ cMetaStore' = IF cTx[w].meta THEN [by |-> w, id |-> cTx[w].db]
                             ELSE cMetaStore
            /\ cCreated' = cCreated \cup {w}
       ELSE UNCHANGED <<cDict, cCounter, cMetaStore, cCreated>>
    /\ cTx' = [cTx EXCEPT ![w] = NoProjectTx]
    /\ UNCHANGED <<cProjects, cLast>>
    /\ UNCHANGED otherThanCreateProject

\* worker w sees a newer metadata version and reloads its tenant
ProjectReload(w) ==
    /\ cTx[w].pc = "idle"
    /\ cProjects[w] # (cDict # InvalidId)
    /\ cProjects' = [cProjects EXCEPT ![w] = (cDict # InvalidId)]
    /\ UNCHANGED <<cDict, cCounter, cMetaStore, cTx, cLast, cCreated>>
    /\ UNCHANGED otherThanCreateProject

(***************************************************************************)
(* ChannelWatcher.watchEvents: one goroutine reading a consumer group of   *)
(* one stream, with Stop and Disconnect called from other goroutines.      *)
(* The stream (ReadGroup, Ack, RemoveConsumerGroup) and the watch callback *)
(* are inputs: ReadGroup fails, has no data, or delivers the next          *)
(* messages; the callback returns any ids and an error or none.            *)
(***************************************************************************)
StreamIds == 1..MaxStreamMsgs
NoRound == [read |-> "none", resp |-> {}, err |-> FALSE, ids |-> {},
            ackCalled |-> FALSE, ackIds |-> {}]

\* a watcher that acknowledges whatever the callback returned
acksAlways(err) == TRUE
\* watchEvents: if ids, err := watcher.watch(resp, nil); err == nil
acksAfter(err) == ~err

WatcherInit ==
    /\ eStop = FALSE
    /\ eDisconnect = FALSE
    /\ eGroup = TRUE
    /\ ePc = "select"
    /\ eNext = 0
    /\ eResp = {}
    /\ eIds = {}
    /\ eAcked = {}
    /\ eOkIds = {}
    /\ eLast = NoRound

\* the watcher before any round of its loop
WatcherIdle == WatcherInit

\* ChannelWatcher.Stop: close(watcher.sigStop)
Stop ==
    /\ ~eStop
    /\ eStop' = TRUE
    /\ UNCHANGED <<eDisconnect, eGroup, ePc, eNext, eResp, eIds, eAcked, eOkIds, eLast>>
    /\ UNCHANGED otherThanWatcher

\* ChannelWatcher.Disconnect: close(watcher.sigDisconnect)
Disconnect ==
    /\ ~eDisconnect
    /\ eDisconnect' = TRUE
    /\ UNCHANGED <<eStop, eGroup, ePc, eNext, eResp, eIds, eAcked, eOkIds, eLast>>
    /\ UNCHANGED otherThanWatcher

\* select takes case <-watcher.sigStop
WatchStopped ==
    /\ ePc = "select"
    /\ eStop
    /\ ePc' = "returned"
    /\ UNCHANGED <<eStop, eDisconnect, eGroup, eNext, eResp, eIds, eAcked, eOkIds, eLast>>
    /\ UNCHANGED otherThanWatcher

\* select takes case <-watcher.sigDisconnect
WatchDisconnected ==
    /\ ePc = "select"
    /\ eDisconnect
    /\ eGroup' = FALSE
    /\ ePc' = "returned"
    /\ UNCHANGED <<eStop, eDisconnect, eNext, eResp, eIds, eAcked, eOkIds, eLast>>
    /\ UNCHANGED otherThanWatcher

\* select takes default: stream.ReadGroup; an error or no data continues
\* the loop, a batch goes to the callback
WatchReadGroup ==
    /\ ePc = "select"
    /\ ~eStop /\ ~eDisconnect
    /\ \E read \in {"error", "nodata", "data"}, n \in 1..MaxStreamMsgs :
        /\ read # "data" => n = 1
        /\ IF read = "data" /\ eNext + n <= MaxStreamMsgs
           THEN /\ eResp' = (eNext + 1)..(eNext + n)
                /\ eNext' = eNext + n
                /\ ePc' = "watch"
                /\ UNCHANGED eLast
           ELSE /\ eLast' = [NoRound EXCEPT
                                !.read = IF read = "data" THEN "nodata" ELSE read]
                /\ UNCHANGED <<eResp, eNext, ePc>>
    /\ UNCHANGED <<eStop, eDisconnect, eGroup, eIds, eAcked, eOkIds>>
    /\ UNCHANGED otherThanWatcher

\* watcher.watch(resp, nil) returns (ids, err)
WatchCallback ==
    /\ ePc = "watch"
    /\ \E ids \in SUBSET StreamIds, err \in BOOLEAN :
        /\ eIds' = ids
        /\ eOkIds' = IF err THEN eOkIds ELSE eOkIds \cup ids
        /\ IF acksAfter(err)
           THEN /\ ePc' = "ack"
                /\ eLast' = [NoRound EXCEPT !.read = "data", !.resp = eResp,
                                            !.err = err, !.ids = ids]
           ELSE /\ ePc' = "select"
                /\ eLast' = [NoRound EXCEPT !.read = "data", !.resp = eResp,
                                            !.err = err, !.ids = ids]
    /\ UNCHANGED <<eStop, eDisconnect, eGroup, eNext, eResp, eAcked>>
    /\ UNCHANGED otherThanWatcher

\* watcher.ack(ctx, ids): stream.Ack, whose error is dropped
WatchAck ==
    /\ ePc = "ack"
    /\ \E ackFails \in BOOLEAN :
        eAcked' = IF ackFails THEN eAcked
                  ELSE eAcked \cup (eIds \cap (1..eNext))
    /\ eLast' = [eLast EXCEPT !.ackCalled = TRUE, !.ackIds = eIds]
    /\ ePc' = "select"
    /\ UNCHANGED <<eStop, eDisconnect, eGroup, eNext, eResp, eIds, eOkIds>>
    /\ UNCHANGED otherThanWatcher

(***************************************************************************)
(* The specifications.                                                     *)
(***************************************************************************)
InitRead == ReadInit /\ WriteInit /\ ImportInit /\ DDLInit /\ TenantIdle /\ HookIdle /\ ProjIdle /\ SchemaIdle /\ NsIdle /\ DictIdle /\ PackIdle /\ SearchIdle /\ ReloadIdle /\ CreateIdle /\ WatcherIdle
SpecRead == InitRead /\ [][NextRead]_vars

\* the read subsystem at rest
ReadIdle ==
    /\ rTable = {}
    /\ rSearchRead = FALSE
    /\ rReq = NoReq
    /\ rOpts = NoOpts
    /\ rPc = "idle"
    /\ rIter = <<>>
    /\ rI = 0
    /\ rRow = NilKey
    /\ rSent = <<>>
    /\ rFirst = <<>>
    /\ rReadNo = 1
    /\ rRestarts = 0

InitWrite == WriteInit /\ ReadIdle /\ ImportInit /\ DDLInit /\ TenantIdle /\ HookIdle /\ ProjIdle /\ SchemaIdle /\ NsIdle /\ DictIdle /\ PackIdle /\ SearchIdle /\ ReloadIdle /\ CreateIdle /\ WatcherIdle

NextWrite ==
    \/ Insert
    \/ Replace
    \/ SchemaChange
    \/ UpdateBegin
    \/ UpdateStep
    \/ UpdateStepFails
    \/ UpdateEnd
    \/ DeleteBegin
    \/ DeleteStep
    \/ DeleteStepFails
    \/ DeleteEnd
    \/ IteratorInterrupted
    \/ SessionCommit
    \/ SessionCommitFails

SpecWrite == InitWrite /\ [][NextWrite]_vars

InitImport == ImportInit /\ ReadIdle /\ WriteInit /\ DDLInit /\ TenantIdle /\ HookIdle /\ ProjIdle /\ SchemaIdle /\ NsIdle /\ DictIdle /\ PackIdle /\ SearchIdle /\ ReloadIdle /\ CreateIdle /\ WatcherIdle

NextImport ==
    \/ ImportBegin
    \/ ImportCreate
    \/ ImportInsert
    \/ ImportEvolve
    \/ ImportRetry
    \/ ImportReturn
    \/ ImportCommit
    \/ ImportDone
    \/ RemoteCreate
    \/ Reload

SpecImport == InitImport /\ [][NextImport]_vars

InitDDL == DDLInit /\ ReadIdle /\ WriteInit /\ ImportInit /\ TenantIdle /\ HookIdle /\ ProjIdle /\ SchemaIdle /\ NsIdle /\ DictIdle /\ PackIdle /\ SearchIdle /\ ReloadIdle /\ CreateIdle /\ WatcherIdle

NextDDL ==
    \/ \E t \in Txs : CreateRun(t)
    \/ \E t \in Txs : CommitDDL(t)
    \/ \E t \in Txs : CommitConflict(t)
    \/ \E t \in Txs : ReloadTenant(t)

SpecDDL == InitDDL /\ [][NextDDL]_vars

InitTenant == TenantInit /\ ReadIdle /\ WriteInit /\ ImportInit /\ DDLInit /\ HookIdle /\ ProjIdle /\ SchemaIdle /\ NsIdle /\ DictIdle /\ PackIdle /\ SearchIdle /\ ReloadIdle /\ CreateIdle /\ WatcherIdle

NextTenant ==
    \/ \E w \in Workers : TenantStartTx(w)
    \/ DDLCommitBumps
    \/ \E w \in Workers : TenantReload(w)
    \/ \E w \in Workers : ManagerReloadBegin(w)
    \/ \E w \in Workers : ManagerReloadTenants(w)
    \/ \E w \in Workers : GetTenant(w)
    \/ \E w \in Workers : CreateOrGetTenant(w)

SpecTenant == InitTenant /\ [][NextTenant]_vars

InitHook == HookInit /\ ReadIdle /\ WriteInit /\ ImportInit /\ DDLInit /\ TenantIdle /\ ProjIdle /\ SchemaIdle /\ NsIdle /\ DictIdle /\ PackIdle /\ SearchIdle /\ ReloadIdle /\ CreateIdle /\ WatcherIdle

NextHook ==
    \/ HookCommit
    \/ OnPostCommitSkip
    \/ OnPostCommitDelete
    \/ OnPostCommitIndex
    \/ OnPostCommitReturn
    \/ HookNext

SpecHook == InitHook /\ [][NextHook]_vars

InitProj == ProjInit /\ ReadIdle /\ WriteInit /\ ImportInit /\ DDLInit /\ TenantIdle /\ HookIdle /\ SchemaIdle /\ NsIdle /\ DictIdle /\ PackIdle /\ SearchIdle /\ ReloadIdle /\ CreateIdle /\ WatcherIdle

NextProj ==
    \/ CreateProject
    \/ ProjectCreateCollection
    \/ ProjectCreateSearchIndex
    \/ ProjectInsert
    \/ CreateBranch
    \/ DeleteBranch
    \/ DeleteProject

SpecProj == InitProj /\ [][NextProj]_vars

\* reads and DDL of a session's explicit transaction over the branches of a
\* project
NextIsolation ==
    \/ CreateProject
    \/ ProjectCreateCollection
    \/ ProjectInsert
    \/ CreateBranch
    \/ TxCreateCollection
    \/ TxRead
    \/ TxEnd

SpecIsolation == InitProj /\ [][NextIsolation]_vars

\* the collections an explicit transaction and the other sessions resolve
NextStaged ==
    \/ CreateProject
    \/ ProjectCreateCollection
    \/ CreateBranch
    \/ TxCreateCollection
    \/ TxDropCollection
    \/ TxRead
    \/ OtherRead
    \/ TxEnd

SpecStaged == InitProj /\ [][NextStaged]_vars

InitSchema == SchemaInit /\ ReadIdle /\ WriteInit /\ ImportInit /\ DDLInit /\ TenantIdle /\ HookIdle /\ ProjIdle /\ NsIdle /\ DictIdle /\ PackIdle /\ SearchIdle /\ ReloadIdle /\ CreateIdle /\ WatcherIdle

NextSchema ==
    \/ CreateOrUpdateCollection
    \/ SchemaEvolve
    \/ SchemaReload

SpecSchema == InitSchema /\ [][NextSchema]_vars

\* the schema store driven directly
NextSchemaStore ==
    \/ StorePut
    \/ StoreGet
    \/ StoreGetLatest
    \/ StoreDelete

SpecSchemaStore == InitSchema /\ [][NextSchemaStore]_vars

InitNs == NsInit /\ ReadIdle /\ WriteInit /\ ImportInit /\ DDLInit /\ TenantIdle /\ HookIdle /\ ProjIdle /\ SchemaIdle /\ DictIdle /\ PackIdle /\ SearchIdle /\ ReloadIdle /\ CreateIdle /\ WatcherIdle

NextNs ==
    \/ NsCreateOrGetTenant
    \/ NsCreateTenant
    \/ NsReserveNamespace
    \/ NsGetTenant

SpecNs == InitNs /\ [][NextNs]_vars

InitDict == DictInit /\ ReadIdle /\ WriteInit /\ ImportInit /\ DDLInit /\ TenantIdle /\ HookIdle /\ ProjIdle /\ SchemaIdle /\ NsIdle /\ PackIdle /\ SearchIdle /\ ReloadIdle /\ CreateIdle /\ WatcherIdle

NextDict ==
    \E t \in DictTxs :
        \/ DictStartTx(t)
        \/ DictCreateOp(t)
        \/ DictDropOp(t)
        \/ DictGetOp(t)
        \/ DictCommit(t)
        \/ DictRollback(t)

SpecDict == InitDict /\ [][NextDict]_vars

InitPack == PackInit /\ ReadIdle /\ WriteInit /\ ImportInit /\ DDLInit /\ TenantIdle /\ HookIdle /\ ProjIdle /\ SchemaIdle /\ NsIdle /\ DictIdle /\ SearchIdle /\ ReloadIdle /\ CreateIdle /\ WatcherIdle

NextPack ==
    \/ PackRow
    \/ UnpackRow

SpecPack == InitPack /\ [][NextPack]_vars

InitSearch == SearchInit /\ ReadIdle /\ WriteInit /\ ImportInit /\ DDLInit /\ TenantIdle /\ HookIdle /\ ProjIdle /\ SchemaIdle /\ NsIdle /\ DictIdle /\ PackIdle /\ ReloadIdle /\ CreateIdle /\ WatcherIdle

NextSearch ==
    \/ \E req \in SearchRequests : SearchStart(req)
    \/ SearchNext
    \/ SearchInterrupt
    \/ \E sendFails \in BOOLEAN : SearchEndPage(sendFails)

\* the runner is one sequential loop: it takes its next step whenever the
\* store and the stream return
SpecSearch == InitSearch /\ [][NextSearch]_vars /\ WF_vars(NextSearch)

InitReload == ReloadInit /\ ReadIdle /\ WriteInit /\ ImportInit /\ DDLInit /\ TenantIdle /\ HookIdle /\ ProjIdle /\ SchemaIdle /\ NsIdle /\ DictIdle /\ PackIdle /\ SearchIdle /\ CreateIdle /\ WatcherIdle

NextReload ==
    \/ ReloadDDLCommit
    \/ \E w \in Workers : ReloadCalled(w)
    \/ \E w \in Workers : ReloadLocks(w)
    \/ \E w \in Workers : ReloadLocked(w)

SpecReload == InitReload /\ [][NextReload]_vars

InitCreateProject == CreateInit /\ ReadIdle /\ WriteInit /\ ImportInit /\ DDLInit /\ TenantIdle /\ HookIdle /\ ProjIdle /\ SchemaIdle /\ NsIdle /\ DictIdle /\ PackIdle /\ SearchIdle /\ ReloadIdle /\ WatcherIdle

NextCreateProject ==
    \/ \E w \in Workers : ProjectRun(w)
    \/ \E w \in Workers : ProjectTxEnds(w)
    \/ \E w \in Workers : ProjectReload(w)

SpecCreateProject == InitCreateProject /\ [][NextCreateProject]_vars

InitWatcher == WatcherInit /\ ReadIdle /\ WriteInit /\ ImportInit /\ DDLInit /\ TenantIdle /\ HookIdle /\ ProjIdle /\ SchemaIdle /\ NsIdle /\ DictIdle /\ PackIdle /\ SearchIdle /\ ReloadIdle /\ CreateIdle

NextWatcher ==
    \/ Stop
    \/ Disconnect
    \/ WatchStopped
    \/ WatchDisconnected
    \/ WatchReadGroup
    \/ WatchCallback
    \/ WatchAck

SpecWatcher == InitWatcher /\ [][NextWatcher]_vars

(***************************************************************************)
(* Streaming read: what an uninterrupted read of the request returns.      *)
(***************************************************************************)
\* the rows of the collection the request's filter matches, in key order
Matching == AscSeq(rTable \cap rReq.match)

(***************************************************************************)
(* C1: a streaming read served from the KV store that restarts in a new    *)
(* transaction after ErrTransactionMaxDurationReached sends every row      *)
(* matching the filter exactly once and in strictly increasing key order:  *)
(* at every moment the rows sent so far are strictly increasing (no row    *)
(* twice), and a read without limit that returns has sent exactly the      *)
(* matching rows.                                                          *)
(***************************************************************************)
C1_ExactlyOnceInOrder ==
    rReadNo = 1 =>
        /\ StrictlyIncreasing(rSent)
        /\ (rPc = "done" /\ rReq.limit = 0) => rSent = Matching

(***************************************************************************)
(* C2: resume-token faithfulness.  A first read that was not interrupted   *)
(* returned a prefix of the matching rows; the rows of a second read whose *)
(* options.offset is the resume token of the first read's last row,        *)
(* appended to the first read's rows, are again a prefix of the matching   *)
(* rows (no row twice, none missing at the boundary), and all of them when *)
(* the second read has no limit.                                           *)
(***************************************************************************)
C2_ResumeFaithful ==
    (/\ rReadNo = 2
     /\ rPc = "done"
     /\ rRestarts = 0
     /\ IsPrefix(rFirst, Matching)) =>
        /\ IsPrefix(rFirst \o rSent, Matching)
        /\ rReq.limit = 0 => rFirst \o rSent = Matching

(***************************************************************************)
(* Writes to one collection (SpecWrite).                                   *)
(***************************************************************************)
\* the step is a run of InsertQueryRunner.Run
IsInsertRun == wPc = "idle" /\ wReq'.op = "insert" /\ wClock' = wClock + 1

\* position of the first document of the batch whose key is stored (0: none)
FirstExisting(docs, view) ==
    IF \E i \in 1..Len(docs) : view[docs[i].key] # NoRow
    THEN CHOOSE i \in 1..Len(docs) :
            /\ view[docs[i].key] # NoRow
            /\ \A j \in 1..(i - 1) : view[docs[j].key] = NoRow
    ELSE 0

\* C3: an Insert whose batch reaches a document (every document up to it being
\* valid) whose primary key is already stored in the collection returns
\* AlreadyExists, and the rows of the collection, the row under that key among
\* them, are what they were.
C3_InsertExistingKey ==
    [][ LET n == FirstExisting(wReq'.docs, wStore) IN
        (IsInsertRun /\ n > 0 /\ \A j \in 1..n : wReq'.docs[j].ok)
            => (wResp'.status = "AlreadyExists" /\ wStore' = wStore) ]_vars

\* C3 witness: an Insert was refused with AlreadyExists for a key that is stored
C3_Witness ==
    /\ wReq.op = "insert"
    /\ wResp.status = "AlreadyExists"
    /\ \E i \in 1..Len(wReq.docs) : wStore[wReq.docs[i].key] # NoRow

\* C4: for every stored row, created_at is the timestamp of the insert that
\* created the document, and updated_at is the timestamp of the last mutation
\* (Replace or Update) applied to it after that insert.
C4_CreatedAtImmutable ==
    \A k \in Live(wStore) :
        /\ wStore[k].c = wStore[k].born
        /\ wStore[k].mut # 0 => wStore[k].u = wStore[k].mut

\* C6: a round of Update that reads the row at k and writes it at k' leaves the
\* merged document at k', nothing at k when k' differs from k, and as many rows
\* in the collection as there were before the round.
C6_ReKeyKeepsRows ==
    [][ (wPc = "update" /\ Len(wDone') = Len(wDone) + 1) =>
            LET k == Head(wIter)
                nk == IF PrimaryKeyMutation(wReq, k) THEN wReq.newKey ELSE k
            IN  /\ wTx'[nk] # NoRow
                /\ wTx'[nk].born = wStore[k].born
                /\ nk # k => wTx'[k] = NoRow
                /\ Cardinality(Live(wTx')) = Cardinality(Live(wTx)) ]_vars

\* C7: an Update or Delete that answered UPDATED or DELETED and was committed
\* returned as modified_count the number of rows it rewrote or deleted, each of
\* them once; with limit L > 0 that number is at most L, and with limit 0 no
\* row of the write iterator was left out.
C7_LimitAndCount ==
    (wPc = "idle" /\ wResp.status \in {"UPDATED", "DELETED"}) =>
        /\ wResp.count = Len(wDone)
        /\ Cardinality(Range(wDone)) = Len(wDone)
        /\ wReq.limit > 0 => wResp.count <= wReq.limit
        /\ wReq.limit = 0 => wIter = <<>>


(***************************************************************************)
(* Import (SpecImport).                                                    *)
(***************************************************************************)
\* C5: every row the transaction of an Import attempt (the first attempt or
\* the retry after schema evolution) has written carries as its version the
\* latest schema version of the collection it is written to, which is the
\* version the document was validated against.
C5_RowVersionIsLatest ==
    \A k \in Keys :
        (iTx[k] # NoRow /\ iTx[k] # iRows[ReqDb][k])
            => iTx[k].ver = iCache[ReqDb].ver

\* C8: when Import has retried a batch after evolving the schema, then, if the
\* collection's schema now accepts every document of the batch (and no key of
\* it is stored already), the answer is INSERTED and every document of the
\* batch is stored; otherwise an error is returned and no document of the
\* batch is stored.
C8_RetryAfterEvolve ==
    (iPc = "done" /\ iRetried) =>
        LET n == Len(iReq.docs)
            accepted == \A i \in 1..n : Validate(iCache[ReqDb], iReq.docs[i])
        IN  IF accepted /\ iResp # "AlreadyExists"
            THEN /\ iResp = "INSERTED"
                 /\ \A i \in 1..n : iRows[ReqDb][iReq.docs[i].key].born = iClock
            ELSE /\ iResp # "INSERTED"
                 /\ \A k \in Keys : iRows[ReqDb][k].born < iClock

\* C9: an Import that found no collection answers NotFound and creates nothing
\* when create_collection is false; when it is true and the creation committed,
\* the collection was created in the database of the request's branch and the
\* request did not end with NotFound.
C9_CreateInRequestBranch ==
    (iPc = "done" /\ iMissing) =>
        IF iReq.create
        THEN iEvolvedIn # "none" => (iEvolvedIn = ReqDb /\ iResp # "NotFound")
        ELSE iResp = "NotFound" /\ iEvolvedIn = "none"


(***************************************************************************)
(* Concurrent create collection (SpecDDL).                                 *)
(***************************************************************************)
\* session t has finished a request that tried to create the collection
TriedCreate(t) == dPc[t] = "done" /\ (dStaged[t] # InvalidId \/ dDup[t])

\* the create of session t is committed
CommittedCreate(t) ==
    dPc[t] = "done" /\ dStaged[t] # InvalidId /\ dResp[t] = "CREATED"

C11_FailedDDLLeavesCache ==
    [][(/\ iPc \in {"create", "evolve"}
        /\ iPc' = "done"
        /\ iResp' \in {"Conflict", "Aborted", "InvalidArgument"})
            => iCache' = iCache]_vars

(***************************************************************************)
(* The tenant cache (SpecTenant).                                          *)
(***************************************************************************)
\* C12: the version of the cached tenant never decreases, whatever the
\* interleaving of Tenant.Reload, TenantManager.Reload, GetTenant and
\* CreateOrGetTenant.
C12_VersionNonDecreasing ==
    [][(tCached /\ tCached') => tVersion' >= tVersion]_vars

\* C13: when the cached tenant is at version v, its cached view holds every
\* DDL whose commit bumped the metadata version to a value of at most v.
C13_ViewCoversVersion ==
    tCached => PersistedView(tVersion) \subseteq tView

(***************************************************************************)
(* The search mirror (SpecHook).                                           *)
(***************************************************************************)
Mirrors(index) == \A k \in HookKeys : index[k] = hRows[k]

\* C14: when the post-commit hook of a committed transaction has completed,
\* every search index that mirrors the collection (its implicit index and an
\* explicit index whose source is the collection) holds exactly the committed
\* rows: one document per live row with the row's latest data, none for a
\* deleted row.
C14_MirrorConverges ==
    (hPc = "done" /\ hErr = "nil")
        => Mirrors(hImplicit) /\ (hLinked => Mirrors(hExplicit))

\* C15: every operation the hook issues to the implicit index of the
\* collection it also issues to the explicit search index that has the
\* collection as its source.
C15_ExplicitIndexesWritten ==
    hLinked =>
        \A j \in 1..Len(hOps) :
            hOps[j].index = "implicit" =>
                \E n \in 1..Len(hOps) :
                    hOps[n] = [hOps[j] EXCEPT !.index = "explicit"]

\* C16: when DeleteDocument answered NotFound for a Delete event, the hook
\* returns no error for it and has processed every later event of the list.
C16_NotFoundNonFatal ==
    (hPc = "done" /\ hNotFoundAt # 0)
        => /\ hErr = "nil"
           /\ \A j \in (hNotFoundAt + 1)..Len(hEvents) : j < hI

\* the operations one per event of the collections the cache knows, in the
\* order of the events
RECURSIVE ExpectedOps(_)
ExpectedOps(evs) ==
    IF evs = <<>> THEN <<>>
    ELSE LET e == Head(evs) IN
         IF ~e.known THEN ExpectedOps(Tail(evs))
         ELSE <<[index |-> "implicit",
                 action |-> IF e.op = "delete" THEN "DeleteDocument"
                            ELSE IndexAction(e.op),
                 key |-> e.key]>> \o ExpectedOps(Tail(evs))

\* C17: the hook applies one operation per event, in the order of the event
\* list (Insert -> Create, Replace -> Replace, Update -> Update, Delete ->
\* DeleteDocument); an event whose table decodes to no cached collection is
\* skipped and the events after it are still applied.
C17_OneOperationPerEventInOrder ==
    (hPc = "done" /\ hErr = "nil") => hOps = ExpectedOps(hEvents)

(***************************************************************************)
(* Projects and branches (SpecProj).                                       *)
(***************************************************************************)
\* C18: DeleteProject on an existing project succeeds and leaves no database
\* (main or branch), no collection, no explicit search index and no
\* project-metadata record of the project, whatever the project holds.
C18_DeleteProjectDropsAll ==
    pLast.op = "DeleteProject" =>
        /\ pLast.err = "OK"
        /\ \A b \in AllDbs : pDbs[b] = NoDb /\ pColls[b] = NoColls
        /\ \A i \in PIndexes : pIdx[i] = NoIndex
        /\ ~pMeta

\* C19: right after CreateBranch succeeded, the branch has a database id that
\* no other database and no stored row carries, it has exactly the
\* collections of the main database, each with the main collection's current
\* schema, and every collection of it is empty.
C19_BranchIsSchemaCopy ==
    (pLast.op = "CreateBranch" /\ pLast.err = "OK") =>
        LET b == pLast.branch IN
        /\ pDbs[b] # NoDb
        /\ \A o \in AllDbs \ {b} : pDbs[o] # pDbs[b]
        /\ pColls[b] = pColls["main"]
        /\ \A r \in pRows : r[1] # pDbs[b]

\* a branch was created from a main database that has a collection with a row
C19_Witness ==
    /\ pLast.op = "CreateBranch"
    /\ pLast.err = "OK"
    /\ \E c \in PColls :
        /\ pColls["main"][c] # 0
        /\ \E r \in pRows : r[1] = pDbs["main"] /\ r[2] = c

\* C20: a read of collection c of one database (main or a branch) returns
\* only rows of that database's own table of c, never a row written to the
\* collection of the same name in another branch or in main.
C20_BranchIsolation ==
    (pLast.op = "Read" /\ pLast.err = "OK" /\ pDbs[pLast.branch] # NoDb) =>
        \A r \in pLast.rows : r[1] = pDbs[pLast.branch]

\* C21: DeleteBranch naming the main branch is rejected with InvalidArgument
\* and changes neither the dictionary nor the cached project.
C21_MainBranchNotDeletable ==
    [][(pLast'.op = "DeleteBranch" /\ pLast'.branch = "main")
        => /\ pLast'.err = "InvalidArgument"
           /\ UNCHANGED <<pCounter, pDbs, pColls, pRows, pMeta, pIdx>>]_vars

\* DeleteBranch of main was asked of a project that has a collection and a
\* branch
C21_Witness ==
    /\ pLast.op = "DeleteBranch"
    /\ pLast.branch = "main"
    /\ \E c \in PColls : pColls["main"][c] # 0
    /\ \E b \in PBranches : pDbs[b] # NoDb


(***************************************************************************)
(* Schema versions of a collection.                                        *)
(***************************************************************************)
\* C22: the schema versions stored for a collection are the contiguous range
\* 1..n, and the version of the cached collection is the highest of them.
C22_VersionsContiguous ==
    sCache # NoHolder =>
        /\ Versions(sStore) = 1..Cardinality(sStore)
        /\ sCache.ver = SchemaGetLatest(sStore).ver

\* C23: a CreateOrUpdateCollection that the compatibility rules reject answers
\* InvalidArgument, and the schema store, the dictionary's index ids and
\* counter and the cached holder (version, schema, index map) are as before.
IsIncompatibleUpdate ==
    /\ sLast'.op = "CreateOrUpdateCollection"
    /\ sCache # NoHolder
    /\ ~isSchemaEq(sCache.sch, sLast'.sch)
    /\ ApplySchemaRulesFails(sCache.sch, sLast'.sch.lvl)

C25_NamespacesUnique ==
    \A s1, s2 \in StrIds :
        s1 # s2 =>
            /\ (nReserved[s1] # NoNs /\ nReserved[s2] # NoNs)
                    => nReserved[s1] # nReserved[s2]
            /\ (nTenants[s1] # NoTenant /\ nTenants[s2] # NoTenant)
                    => nTenants[s1].id # nTenants[s2].id


(***************************************************************************)
(* The dictionary.                                                         *)
(***************************************************************************)
\* the ids that the Creates of the kind have returned, as far as the
\* transaction sees them: its own and those committed before its start
CreatedBefore(t, kind) ==
    {a[2] : a \in {b \in kAllocated \cup kNew[t] :
                        b[1] = kind /\ (b \in kNew[t] \/ b[2] <= kSnap[t].counter)}}

\* C26: a Get returns no error; it returns the id that the latest Create of
\* the name returned while the name is active, and InvalidId once the name
\* is dropped or when it was never created.
C26_GetIdFollowsCreateAndDrop ==
    kLast.op = "get" =>
        /\ kLast.err = "OK"
        /\ IF kView[kLast.tx].recs[kLast.kind].state = "active"
           THEN /\ CreatedBefore(kLast.tx, kLast.kind) # {}
                /\ kLast.id = Max(CreatedBefore(kLast.tx, kLast.kind))
           ELSE kLast.id = InvalidId

\* a Get has returned the id of the second Create of a name that was dropped
\* in between
C26_Witness ==
    /\ kLast.op = "get"
    /\ kLast.id # InvalidId
    /\ \E old \in CreatedBefore(kLast.tx, kLast.kind) : old < kLast.id

\* a Get has returned InvalidId for a name that was created and dropped
C26_WitnessDropped ==
    /\ kLast.op = "get"
    /\ kLast.id = InvalidId
    /\ kView[kLast.tx].recs[kLast.kind].state = "dropped"

\* C27: every id that the Creates of a committing transaction have returned
\* is greater than every id that a Create of the same kind had returned in a
\* transaction committed before.
C27_IdsIncreaseNoReuse ==
    [][kLast'.op = "commit" =>
          \A a \in kNew[kLast'.tx] : \A b \in kAllocated :
              a[1] = b[1] => a[2] > b[2]]_vars

\* a name dropped and created anew has a greater id than before, and both
\* kinds have had ids
C27_Witness ==
    /\ kLast.op = "commit"
    /\ \E kind \in DictKinds :
          /\ kRecs[kind].state = "active"
          /\ \E b \in kAllocated : b[1] = kind /\ b[2] < kRecs[kind].id
    /\ \A kind \in DictKinds : \E b \in kAllocated : b[1] = kind


(***************************************************************************)
(* The schema store.                                                       *)
(***************************************************************************)
\* C28: a Put with a version of 0 or less returns InvalidArgument (invalid
\* schema version), a Put of an empty schema returns InvalidArgument (empty
\* schema), a Put under a version that is stored returns DuplicateKey, and
\* the entries stored are as before after each of these.
C28_PutRejects ==
    [][sLast'.op = "Put" =>
          /\ sLast'.ver <= 0 => sLast'.err = "InvalidArgument: invalid schema version"
          /\ (sLast'.ver > 0 /\ sLast'.sch = EmptySchema)
                => sLast'.err = "InvalidArgument: empty schema"
          /\ (sLast'.ver > 0 /\ sLast'.sch # EmptySchema /\ sLast'.ver \in Versions(sStore))
                => sLast'.err = "DuplicateKey"
          /\ sLast'.err # "OK" => sStore' = sStore
          /\ sLast'.err = "OK" =>
                sStore' = sStore \cup {[ver |-> sLast'.ver, sch |-> sLast'.sch]}]_vars

\* a Put under a stored version, with another schema, has returned DuplicateKey
C28_Witness ==
    /\ sLast.op = "Put"
    /\ sLast.err = "DuplicateKey"
    /\ \E e \in sStore : e.ver = sLast.ver /\ e.sch # sLast.sch
    /\ Cardinality(sStore) >= 2

\* C29: Get returns the entries stored, each once, in ascending order of
\* their versions (none after a Delete), and GetLatest returns the entry of
\* the highest version.
C29_GetAscendingLatestHighest ==
    /\ sLast.op = "Get" =>
          /\ Range(sLast.got) = sStore
          /\ Len(sLast.got) = Cardinality(sStore)
          /\ \A i \in 1..(Len(sLast.got) - 1) : sLast.got[i].ver < sLast.got[i + 1].ver
    /\ (sLast.op = "GetLatest" /\ sStore # {}) =>
          /\ [ver |-> sLast.ver, sch |-> sLast.sch] \in sStore
          /\ \A e \in sStore : e.ver <= sLast.ver

\* a Get has returned three versions, the first two with different schemas
C29_Witness ==
    /\ sLast.op = "Get"
    /\ Len(sLast.got) = 3
    /\ sLast.got[1].sch # sLast.got[2].sch


(***************************************************************************)
(* Interrupted Update and Delete (SpecWrite).                              *)
(***************************************************************************)
\* C30: an Update or Delete whose iterator was interrupted before it was
\* exhausted, short of the limit, does not answer UPDATED or DELETED.
C30_InterruptedWriteFails ==
    (/\ wPc = "commit"
     /\ wReq.op \in {"update", "delete"}
     /\ wStopped
     /\ wIter # <<>>
     /\ (wReq.limit = 0 \/ wModified < wReq.limit))
        => wResp.status \notin {"UPDATED", "DELETED"}


(***************************************************************************)
(* C31: UnpackSearchFields is the exact inverse of PackSearchFields: for   *)
(* every document valid for the collection (nested objects, empty ones     *)
(* included; date-time fields; string arrays with null elements; a user    *)
(* field named id; user fields named created_at and updated_at) and every  *)
(* row metadata, unpacking the packed document returns the original search *)
(* key, the original created and updated timestamps and a document equal   *)
(* to the original.                                                        *)
(***************************************************************************)
C31_UnpackInvertsPack ==
    fPc = "unpacked" =>
        /\ fOut.key = fKey
        /\ fOut.data = fData
        /\ fOut.doc = fDoc


(***************************************************************************)
(* C32: SearchQueryRunner.ReadOnly always terminates and, when no error    *)
(* occurs, sends at least one SearchResponse: with request page 0 and N    *)
(* total hits it sends max(1, ceil(N/pageSize)) responses carrying         *)
(* consecutive page numbers starting at 1 and at most pageSize hits each;  *)
(* with request page p > 0 it sends exactly one response, numbered p;      *)
(* every response carries the facets and the found and total-pages         *)
(* metadata.                                                               *)
(***************************************************************************)
SearchPagesSent ==
    (qPc = "done" /\ qResult = "ok") =>
        /\ Len(qSent) >= 1
        /\ qReq.page = 0 =>
              /\ Len(qSent) = Max({1, TotalPagesOf(qFound, PageSizeOf(qReq))})
              /\ \A i \in DOMAIN qSent :
                    /\ qSent[i].page = i
                    /\ qSent[i].hits <= PageSizeOf(qReq)
        /\ qReq.page > 0 =>
              /\ Len(qSent) = 1
              /\ qSent[1].page = qReq.page
        /\ \A i \in DOMAIN qSent :
              /\ qSent[i].facets = "facets"
              /\ qSent[i].found = qFound
              /\ qSent[i].totalPages = TotalPagesOf(qFound, PageSizeOf(qReq))

C32_SearchTerminatesWithPages ==
    /\ <>(qPc = "done")
    /\ []SearchPagesSent

\* a search of all pages that ended without error after two full pages
C32_Witness ==
    /\ qPc = "done"
    /\ qResult = "ok"
    /\ qReq.page = 0
    /\ Len(qSent) = 2
    /\ qFound = 2 * PageSizeOf(qReq)


(***************************************************************************)
(* C33: buildReaderOptions selects the read path as enumerated, for every  *)
(* combination of filter shape, sort, resume token and search read-enabled *)
(* flag: the search path whenever a sort is requested or the filter uses   *)
(* unindexed fields; otherwise the key iterator when the filter binds the  *)
(* full primary key, a scan from the offset when a resume token is         *)
(* present, and a full-table scan when there is no usable index.  Where    *)
(* two of the cases apply at once either path is accepted, and a filter on *)
(* indexed fields that binds no full key may also go to the search store   *)
(* when search reads are enabled.                                          *)
(***************************************************************************)
EnumeratedPaths(req, searchRead) ==
    IF req.sort \/ req.kind = "unindexed" THEN {"search"}
    ELSE (IF req.kind = "pk" THEN {"keys"} ELSE {})
         \cup (IF req.offset # NilKey THEN {"scan-from"} ELSE {})
         \cup (IF req.kind # "pk" /\ req.offset = NilKey THEN {"scan-table"} ELSE {})
         \cup (IF req.kind = "indexed" /\ searchRead THEN {"search"} ELSE {})

C33_ReadPathAsEnumerated ==
    (rPc # "idle" /\ rRestarts = 0) =>
        ReadPath(rOpts) \in EnumeratedPaths(rReq, rSearchRead)


(***************************************************************************)
(* C34: inside one explicit transaction, after a create or drop collection *)
(* has staged a cloned Database, every later operation of that transaction *)
(* on the same database resolves collections against the staged clone (it  *)
(* sees a created collection and gets NotFound for a dropped one), while   *)
(* requests of other transactions keep resolving against the unmodified    *)
(* cached Database until the transaction of the DDL commits.               *)
(***************************************************************************)
ResolvedIn(colls, c) == IF colls[c] = 0 THEN "NotFound" ELSE "OK"

C34_StagedDatabaseResolves ==
    [][/\ (pLast'.op = "Read" /\ pStaged # NoStaged
                              /\ pLast'.branch = pStaged.branch) =>
              pLast'.err = ResolvedIn(pStaged.colls, pLast'.coll)
       /\ (pLast'.op = "OtherRead" /\ pDbs[pLast'.branch] # NoDb) =>
              pLast'.err = ResolvedIn(pColls[pLast'.branch], pLast'.coll)
       /\ (pStaged' # NoStaged /\ pStaged' # pStaged) => pColls' = pColls]_vars

\* the transaction has created one collection and dropped another of the
\* same database, and a read of it resolved the created one
C34_Witness ==
    /\ pStaged # NoStaged
    /\ pLast.op = "Read"
    /\ pLast.branch = pStaged.branch
    /\ pLast.err = "OK"
    /\ pColls[pLast.branch][pLast.coll] = 0
    /\ \E c \in PColls : pColls[pStaged.branch][c] # 0 /\ pStaged.colls[c] = 0


(***************************************************************************)
(* C39: BaseQueryRunner.getDatabase returns a Database whose project name  *)
(* and branch equal the ones named in the request, in every state of the   *)
(* transaction, an explicit transaction in which an earlier DDL on another *)
(* branch has already staged a database included.                          *)
(***************************************************************************)
C39_DatabaseIsTheRequestedOne ==
    (pLast.op \in {"Read", "OtherRead", "DropCollection"} /\ pLast.db # "") =>
        pLast.db = pLast.branch


(***************************************************************************)
(* C35, as stated: among any number of concurrent Tenant.Reload calls      *)
(* carrying the same version v greater than the tenant's cached version,   *)
(* exactly one performs the reload from the store while the others block   *)
(* on the tenant lock and return without reloading; a Reload whose version *)
(* is less than or equal to the cached version never reloads and never     *)
(* changes the cache.                                                      *)
(***************************************************************************)
StaleCallLeavesCache ==
    (lLast.w # 0 /\ lLast.version <= lLast.versionBefore) =>
        /\ ~lLast.reloaded
        /\ ~lLast.changed

C38_FailedReloadKeepsCache ==
    (lLast.w # 0 /\ lLast.err) => ~lLast.changed

(***************************************************************************)
(* C36: a streaming read with limit L > 0 sends at most L rows for the     *)
(* request, counted over every transaction the read runs in: a restart     *)
(* after ErrTransactionMaxDurationReached does not give the read a fresh   *)
(* limit.                                                                  *)
(***************************************************************************)
C36_LimitAcrossRestarts ==
    rReq.limit > 0 => Len(rSent) <= rReq.limit

(***************************************************************************)
(* C37: a CreateProject for a project that is not in the worker's tenant   *)
(* cache while its main-database dictionary entry exists is answered       *)
(* AlreadyExists and inserts no project metadata, and of the workers that  *)
(* create the project at most one gets CREATED and commits.                *)
(***************************************************************************)
C37_DuplicateProjectFails ==
    /\ cLast.duplicate => (cLast.status = "AlreadyExists" /\ ~cLast.meta)
    /\ Cardinality(cCreated) <= 1

(***************************************************************************)
(* C40: ChannelWatcher calls Ack for a batch only after the watch callback *)
(* has returned without error for it, and with exactly the ids the         *)
(* callback returned; a round in which ReadGroup failed or had no data, or *)
(* in which the callback returned an error, acknowledges nothing; the      *)
(* stream so never holds an acknowledged id that no successful callback    *)
(* returned, and a returned watcher is in no round.  Stop and Disconnect   *)
(* may come at any moment.                                                 *)
(***************************************************************************)
C40_AckOnlyWhatCallbackReturned ==
    /\ eLast.ackCalled =>
          /\ eLast.read = "data"
          /\ ~eLast.err
          /\ eLast.ackIds = eLast.ids
    /\ ePc = "ack" => (~eLast.err /\ eLast.ids = eIds /\ ~eLast.ackCalled)
    /\ (eLast.read \in {"error", "nodata"} \/ eLast.err) => ~eLast.ackCalled
    /\ eAcked \subseteq eOkIds

\* Stop came while a batch was with the callback, and the batch was
\* acknowledged with the ids the callback returned
C40_Witness ==
    /\ eStop
    /\ eLast.ackCalled
    /\ eLast.ids # {}
    /\ eLast.ids # eLast.resp
    /\ eAcked # {}
    /\ ePc = "returned"

=============================================================================
